---- MODULE Spec2Model ----
(***************************************************************************)
(* State-machine model of the LasVegas bot: the users ledger               *)
(* (db/database.py), the economy commands (cogs/commands.py), the         *)
(* blackjack duel (cogs/game_manager.py, game/blackjack.py), the roulette  *)
(* tables (cogs/roulette_manager.py, game/roulette.py) and the lottery     *)
(* (cogs/lottery_manager.py).                                              *)
(*                                                                         *)
(* Every handler is a coroutine.  Between two awaits its code runs         *)
(* atomically; at an await other handlers may run.  One action of the      *)
(* model is one such segment: the database call the coroutine was waiting  *)
(* for (one SQL statement, atomic in the store) followed by the            *)
(* synchronous code up to the next await.  procs holds the handlers in     *)
(* flight with their local variables and position.                         *)
(*                                                                         *)
(* Money is counted in cents (DECIMAL arithmetic is exact).                *)
(***************************************************************************)
EXTENDS Integers, Sequences, FiniteSets, TLC

\* ---------------------------------------------------------------- bounds
NumUsers == 3          \* user ids 1..NumUsers
NumProcs == 2          \* handlers in flight at the same time
MaxBalance == 16000    \* no handler that credits an account starts at or above this balance
MaxTime == 120         \* the clock stops here
\* ------------------------------------------------------------- constants
ADMIN_USER_ID == 1
DEFAULT_BALANCE == 10000   \* balance DECIMAL DEFAULT 100.0
ROB_COOLDOWN == 120

Users == 1..NumUsers
ProcIds == 1..NumProcs
DepositAmounts == {6000}
GiveAmounts == {6000}
TickSteps == {119, 120}
\* the robberies tried: <<robber, target>>
RobPairs == {<<1, 2>>, <<2, 1>>}

VARIABLES
    users,              \* table users: user_id -> balance (DOMAIN = accounts)
    rob_cooldowns,      \* Commands.rob_cooldowns: user_id -> last_rob_time
    now,                \* datetime.now(), in seconds
    pending_challenges, \* GameManager.pending_challenges, in insertion order
    games,              \* the BlackjackGame objects still referenced
    games_created,      \* how many BlackjackGame objects were created so far
    active_games,       \* GameManager.active_games: player_id -> game
    active_players,     \* GameManager.active_players
    tables,             \* the RouletteGame objects still referenced
    tables_created,     \* how many RouletteGame objects were created so far
    active_tables,      \* RouletteManager.active_tables: table_id -> game
    player_tables,      \* RouletteManager.player_tables: player_id -> table_id
    lotteries,          \* table lotteries: lottery_id -> row
    lottery_entries,    \* table lottery_entries: set of <<lottery_id, user_id>>
    procs,              \* handlers in flight: slot -> locals and position
    lastUpdate          \* history: the last update_balance call and its result

ledgerVars == <<users, lastUpdate>>
robVars == <<rob_cooldowns, now>>
duelVars == <<pending_challenges, games, games_created, active_games, active_players>>
rouletteVars == <<tables, tables_created, active_tables, player_tables>>
lotteryVars == <<lotteries, lottery_entries>>

vars == <<users, rob_cooldowns, now, pending_challenges, games, games_created, active_games,
          active_players, tables, tables_created, active_tables, player_tables, lotteries,
          lottery_entries, procs, lastUpdate>>

Idle == [op |-> "idle"]
NoUpdate == [called |-> FALSE, found |-> FALSE, ok |-> FALSE, negative |-> FALSE,
             applied |-> FALSE, unchanged |-> TRUE]

\* A new handler takes the lowest free slot.
FreeSlot(p) == /\ procs[p].op = "idle"
               /\ \A q \in ProcIds : q < p => procs[q].op # "idle"

Finish(p) == [procs EXCEPT ![p] = Idle]

\* ------------------------------------------------------------ database.py
HasAccount(tbl, user_id) == user_id \in DOMAIN tbl

\* get_balance: the balance, or -1 for None (no such row)
get_balance(tbl, user_id) == IF HasAccount(tbl, user_id) THEN tbl[user_id] ELSE -1

\* create_user: INSERT, or the table unchanged on UniqueViolationError
create_user(tbl, user_id) ==
    IF HasAccount(tbl, user_id) THEN tbl
    ELSE [u \in DOMAIN tbl \cup {user_id} |-> IF u = user_id THEN DEFAULT_BALANCE ELSE tbl[u]]

delete_user(tbl, user_id) == [u \in DOMAIN tbl \ {user_id} |-> tbl[u]]

\* update_balance without the balance condition in WHERE
update_balance_unguarded(tbl, user_id, amount) ==
    IF HasAccount(tbl, user_id) THEN [tbl EXCEPT ![user_id] = @ + amount] ELSE tbl

\* update_balance with GREATEST(balance + $2, 0) in place of the condition
update_balance_clamped(tbl, user_id, amount) ==
    IF HasAccount(tbl, user_id)
    THEN [tbl EXCEPT ![user_id] = IF @ + amount >= 0 THEN @ + amount ELSE 0]
    ELSE tbl

\* update_balance: UPDATE ... SET balance = balance + $2
\*                 WHERE user_id = $1 AND balance + $2 >= 0
update_balance(tbl, user_id, amount) ==
    IF HasAccount(tbl, user_id) /\ tbl[user_id] + amount >= 0
    THEN [tbl EXCEPT ![user_id] = @ + amount]
    ELSE tbl

\* set_balance: UPDATE ... SET balance = $2 WHERE user_id = $1
set_balance(tbl, user_id, amount) ==
    IF HasAccount(tbl, user_id) THEN [tbl EXCEPT ![user_id] = amount] ELSE tbl

\* The record of one update_balance call: 'UPDATE 1' in result <=> the row changed
\* or the amount was 0 and the row matched.
UpdateRecord(tbl, tbl2, user_id, amount) ==
    [called |-> TRUE,
     found |-> HasAccount(tbl, user_id),
     negative |-> HasAccount(tbl, user_id) /\ tbl[user_id] + amount < 0,
     applied |-> HasAccount(tbl, user_id) /\ tbl2[user_id] = tbl[user_id] + amount,
     unchanged |-> tbl2 = tbl,
     ok |-> HasAccount(tbl, user_id) /\ tbl2[user_id] = tbl[user_id] + amount
            /\ (tbl2 # tbl \/ amount = 0)]

\* One awaited update_balance call by a handler.
DoUpdate(user_id, amount) ==
    /\ users' = update_balance(users, user_id, amount)
    /\ lastUpdate' = UpdateRecord(users, users', user_id, amount)

\* Handlers that credit an account are not started once it holds MaxBalance.
Capped(u) == HasAccount(users, u) => users[u] < MaxBalance

\* ------------------------------------------------------------ commands.py
\* /new
NewAccount(u) ==
    /\ ~HasAccount(users, u)
    /\ users' = create_user(users, u)
    /\ UNCHANGED <<lastUpdate, robVars, procs, duelVars, rouletteVars, lotteryVars>>

\* /dep: both balances are read, then two separate update_balance calls
Deposit(p, u, to, amount) ==
    /\ FreeSlot(p)
    /\ amount > 0
    /\ HasAccount(users, u)
    /\ ~(users[u] < amount)
    /\ Capped(to)
    /\ procs' = [procs EXCEPT ![p] = [op |-> "deposit", pc |-> "get_receiver",
                                      user |-> u, to |-> to, amount |-> amount,
                                      debited |-> FALSE]]
    /\ UNCHANGED <<ledgerVars, robVars, duelVars, rouletteVars, lotteryVars>>

DepositGetReceiver(p) ==
    /\ procs[p].op = "deposit" /\ procs[p].pc = "get_receiver"
    /\ procs' = IF HasAccount(users, procs[p].to)
                THEN [procs EXCEPT ![p].pc = "debit"]
                ELSE Finish(p)
    /\ UNCHANGED <<ledgerVars, robVars, duelVars, rouletteVars, lotteryVars>>

DepositDebit(p) ==
    /\ procs[p].op = "deposit" /\ procs[p].pc = "debit"
    /\ DoUpdate(procs[p].user, -procs[p].amount)
    /\ procs' = [procs EXCEPT ![p].pc = "credit", ![p].debited = lastUpdate'.ok]
    /\ UNCHANGED <<robVars, duelVars, rouletteVars, lotteryVars>>

DepositCredit(p) ==
    /\ procs[p].op = "deposit" /\ procs[p].pc = "credit"
    /\ DoUpdate(procs[p].to, procs[p].amount)
    /\ procs' = Finish(p)
    /\ UNCHANGED <<robVars, duelVars, rouletteVars, lotteryVars>>

\* /da: DELETE fails on a foreign key while rows of lottery_entries or lotteries
\* reference the account
Referenced(user_id) ==
    \/ \E e \in lottery_entries : e[2] = user_id
    \/ \E l \in DOMAIN lotteries : lotteries[l].winner_id = user_id

\* a /da that does not look at the caller
DeleteAccount_anyone(u, target) ==
    /\ u \in Users
    /\ HasAccount(users, target)
    /\ ~Referenced(target)
    /\ users' = delete_user(users, target)
    /\ UNCHANGED <<lastUpdate, robVars, procs, duelVars, rouletteVars, lotteryVars>>

DeleteAccount(u, target) ==
    /\ u = ADMIN_USER_ID
    /\ HasAccount(users, target)
    /\ ~Referenced(target)
    /\ users' = delete_user(users, target)
    /\ UNCHANGED <<lastUpdate, robVars, procs, duelVars, rouletteVars, lotteryVars>>

\* /give: new_balance = current_balance + amount, then set_balance
GiveMoney(p, u, target, amount) ==
    /\ FreeSlot(p)
    /\ u = ADMIN_USER_ID
    /\ amount > 0
    /\ HasAccount(users, target)
    /\ Capped(target)
    /\ procs' = [procs EXCEPT ![p] = [op |-> "give", pc |-> "set_balance", user |-> u,
                                      target |-> target,
                                      new_balance |-> users[target] + amount]]
    /\ UNCHANGED <<ledgerVars, robVars, duelVars, rouletteVars, lotteryVars>>

GiveSetBalance(p) ==
    /\ procs[p].op = "give" /\ procs[p].pc = "set_balance"
    /\ users' = set_balance(users, procs[p].target, procs[p].new_balance)
    /\ procs' = Finish(p)
    /\ UNCHANGED <<lastUpdate, robVars, duelVars, rouletteVars, lotteryVars>>

\* /rob: cooldown check, both balances, then the cooldown is set and the
\* balances are moved by two update_balance calls (one on failure).
Exact(balance, percent) == (balance * percent) % 100 = 0
Share(balance, percent) == (balance * percent) \div 100

OnCooldown(u, current_time) ==
    /\ u \in DOMAIN rob_cooldowns
    /\ current_time - rob_cooldowns[u] < ROB_COOLDOWN

Rob(p, u, target) ==
    /\ FreeSlot(p)
    /\ ~OnCooldown(u, now)
    /\ target # u
    /\ HasAccount(users, u)
    /\ Capped(u)
    /\ procs' = [procs EXCEPT ![p] = [op |-> "rob", pc |-> "get_target", user |-> u,
                                      target |-> target, current_time |-> now,
                                      robber_balance |-> users[u], amount |-> 0]]
    /\ UNCHANGED <<ledgerVars, robVars, duelVars, rouletteVars, lotteryVars>>

RobGetTarget(p, success) ==
    /\ procs[p].op = "rob" /\ procs[p].pc = "get_target"
    /\ LET u == procs[p].user
           t == procs[p].target
       IN IF ~HasAccount(users, t)
          THEN /\ procs' = Finish(p)
               /\ UNCHANGED rob_cooldowns
          ELSE /\ Exact(users[t], 20) /\ Exact(procs[p].robber_balance, 2)
               /\ rob_cooldowns' = [x \in DOMAIN rob_cooldowns \cup {u} |->
                                       IF x = u THEN procs[p].current_time
                                       ELSE rob_cooldowns[x]]
               /\ procs' = IF success
                           THEN [procs EXCEPT ![p].pc = "take",
                                              ![p].amount = Share(users[t], 20)]
                           ELSE [procs EXCEPT ![p].pc = "penalty",
                                              ![p].amount = Share(procs[p].robber_balance, 2)]
    /\ UNCHANGED <<ledgerVars, now, duelVars, rouletteVars, lotteryVars>>

\* success: the target is debited 20%, then the robber is credited
RobTake(p) ==
    /\ procs[p].op = "rob" /\ procs[p].pc = "take"
    /\ DoUpdate(procs[p].target, -procs[p].amount)
    /\ procs' = [procs EXCEPT ![p].pc = "keep"]
    /\ UNCHANGED <<robVars, duelVars, rouletteVars, lotteryVars>>

RobKeep(p) ==
    /\ procs[p].op = "rob" /\ procs[p].pc = "keep"
    /\ DoUpdate(procs[p].user, procs[p].amount)
    /\ procs' = Finish(p)
    /\ UNCHANGED <<robVars, duelVars, rouletteVars, lotteryVars>>

\* failure: the robber is debited 2% of the balance read earlier
RobPenalty(p) ==
    /\ procs[p].op = "rob" /\ procs[p].pc = "penalty"
    /\ DoUpdate(procs[p].user, -procs[p].amount)
    /\ procs' = Finish(p)
    /\ UNCHANGED <<robVars, duelVars, rouletteVars, lotteryVars>>

\* the wall clock
Tick(d) ==
    /\ now + d <= MaxTime
    /\ now' = now + d
    /\ UNCHANGED <<ledgerVars, rob_cooldowns, procs, duelVars, rouletteVars, lotteryVars>>

EmptyFn == [x \in {} |-> 0]

Restrict(f, S) == [x \in S \cap DOMAIN f |-> f[x]]
Put(f, k, v) == [x \in DOMAIN f \cup {k} |-> IF x = k THEN v ELSE f[x]]
Drop(f, k) == [x \in DOMAIN f \ {k} |-> f[x]]
Range(f) == {f[x] : x \in DOMAIN f}
RemoveAt(seq, i) == [j \in 1..(Len(seq) - 1) |-> IF j < i THEN seq[j] ELSE seq[j + 1]]

\* ------------------------------------------------------------ blackjack.py
Ranks == {"A", "2", "3", "4", "5", "6", "7", "8", "9", "10", "J", "Q", "K"}
NumberValue == [r \in Ranks \ {"A", "J", "Q", "K"} |->
                  CASE r = "2" -> 2 [] r = "3" -> 3 [] r = "4" -> 4 [] r = "5" -> 5
                    [] r = "6" -> 6 [] r = "7" -> 7 [] r = "8" -> 8 [] r = "9" -> 9
                    [] r = "10" -> 10]

\* the first loop of _calculate_score: the sum with every ace counted 11
RECURSIVE RawScore(_)
RawScore(hand) ==
    IF hand = <<>> THEN 0
    ELSE RawScore(Tail(hand)) +
         (IF Head(hand) \in {"J", "Q", "K"} THEN 10
          ELSE IF Head(hand) = "A" THEN 11
          ELSE NumberValue[Head(hand)])

Aces(hand) == Cardinality({i \in DOMAIN hand : hand[i] = "A"})

Reduce_once(score, aces) == IF score > 21 /\ aces > 0 THEN score - 10 ELSE score

\* while score > 21 and aces: score -= 10; aces -= 1
RECURSIVE Reduce(_, _)
Reduce(score, aces) ==
    IF score > 21 /\ aces > 0 THEN Reduce(score - 10, aces - 1) ELSE score

_calculate_score(hand) == Reduce(RawScore(hand), Aces(hand))

\* hands[player_id].append(deck.pop()); _calculate_score(player_id)
\* (suits play no part; the deck is kept with its next card first)
Draw(game, player_id) ==
    LET hand == Append(game.hands[player_id], Head(game.deck))
    IN [game EXCEPT !.deck = Tail(game.deck),
                    !.hands[player_id] = hand,
                    !.scores[player_id] = _calculate_score(hand)]

\* BlackjackGame.__init__: deck is the shuffled deck
BlackjackGame(player1_id, player2_id, wager, deck) ==
    [deck |-> deck,
     player1_id |-> player1_id, player2_id |-> player2_id, wager |-> wager,
     hands |-> [pl \in {player1_id, player2_id} |-> <<>>],
     scores |-> [pl \in {player1_id, player2_id} |-> 0],
     current_turn |-> player1_id,
     game_ended |-> FALSE]

\* deal_initial_cards: two rounds, player1 then player2
deal_initial_cards(game) ==
    Draw(Draw(Draw(Draw(game, game.player1_id), game.player2_id),
              game.player1_id), game.player2_id)

is_bust(game, player_id) == game.scores[player_id] > 21

\* determine_winner: the winner's id, 0 for a draw
determine_winner(game) ==
    LET score1 == game.scores[game.player1_id]
        score2 == game.scores[game.player2_id]
    IN IF score1 > 21 THEN game.player2_id
       ELSE IF score2 > 21 THEN game.player1_id
       ELSE IF score1 > score2 THEN game.player1_id
       ELSE IF score2 > score1 THEN game.player2_id
       ELSE 0

\* --------------------------------------------------------- game_manager.py
MaxGames == 3          \* no challenge is accepted after this many games
Wagers == {10000}
\* the challenges issued: <<challenger, challenged>>
ChallengePairs == {<<1, 3>>, <<2, 3>>, <<3, 1>>}
\* The shuffles tried: the cards on top of the deck, next card first.  The cards
\* below them are never drawn.
Decks == { <<"K", "5", "K", "K", "5", "K">>,
           <<"K", "K", "5", "5", "5", "K">>,
           <<"5", "K", "K", "K", "K", "5">> }

GameRef(r) == IF r.op \in {"respond", "hit", "end_game"} THEN r.game ELSE 0

\* the BlackjackGame objects reachable from active_games or from a handler
LiveGames(ag, pr) == (Range(ag) \cup {GameRef(pr[p]) : p \in ProcIds}) \ {0}

HasPending(pend, challenger_id) == \E i \in DOMAIN pend : pend[i].challenger = challenger_id
IndexOf(pend, challenger_id) == CHOOSE i \in DOMAIN pend : pend[i].challenger = challenger_id

\* pending_challenges[challenger_id] = (challenged_id, wager): an existing key keeps its place
SetPending(pend, challenger_id, challenged_id, wager) ==
    LET e == [challenger |-> challenger_id, challenged |-> challenged_id, wager |-> wager]
    IN IF HasPending(pend, challenger_id)
       THEN [pend EXCEPT ![IndexOf(pend, challenger_id)] = e]
       ELSE Append(pend, e)

\* /challenge: reservations are checked, then both balances are read
Challenge(p, u, target, wager) ==
    /\ FreeSlot(p)
    /\ wager > 0
    /\ u \notin active_players
    /\ target \notin active_players
    /\ Capped(u) /\ Capped(target)
    /\ procs' = [procs EXCEPT ![p] = [op |-> "challenge", pc |-> "get_challenged",
                                      user |-> u, target |-> target, wager |-> wager,
                                      challenger_balance |-> get_balance(users, u)]]
    /\ UNCHANGED <<ledgerVars, robVars, duelVars, rouletteVars, lotteryVars>>

\* "not balance" holds for None and for a balance of 0
Falsy(balance) == balance = -1 \/ balance = 0

ChallengeSet(p) ==
    /\ procs[p].op = "challenge" /\ procs[p].pc = "get_challenged"
    /\ LET r == procs[p]
           challenged_balance == get_balance(users, r.target)
       IN pending_challenges' =
            IF Falsy(r.challenger_balance) \/ Falsy(challenged_balance)
               \/ r.challenger_balance < r.wager \/ challenged_balance < r.wager
            THEN pending_challenges
            ELSE SetPending(pending_challenges, r.user, r.target, r.wager)
    /\ procs' = Finish(p)
    /\ UNCHANGED <<ledgerVars, robVars, games, games_created, active_games, active_players,
                   rouletteVars, lotteryVars>>

\* the branch of handle_challenge_response an entry takes for this click
Matches(e, action, u) ==
    \/ action \in {"accept", "deny"} /\ u = e.challenged
    \/ action = "withdraw" /\ u = e.challenger

\* the first entry at or after position from that the loop acts on, 0 if none
NextMatch(pend, from, action, u) ==
    IF \E i \in DOMAIN pend : i >= from /\ Matches(pend[i], action, u)
    THEN CHOOSE i \in DOMAIN pend :
            /\ i >= from /\ Matches(pend[i], action, u)
            /\ \A j \in DOMAIN pend : (j >= from /\ j < i) => ~Matches(pend[j], action, u)
    ELSE 0

\* an entry before a running iteration's position was deleted
Shift(r, j) == IF r.op = "respond" /\ r.cursor > j THEN [r EXCEPT !.cursor = @ - 1] ELSE r

ReservedOnAccept(challenger_id, challenged_id) ==
    challenger_id \in active_players \/ challenged_id \in active_players

\* interaction.message: the messages of the pending challenges, each named by the
\* challenger whose /challenge sent it; anybody can press their buttons
ChallengeMessages(pend) == {pend[i].challenger : i \in DOMAIN pend}

\* the messages of the challenges in which the user has the role the button is for
ClickableMessages(pend, action, u) ==
    {pend[i].challenger : i \in {j \in DOMAIN pend : Matches(pend[j], action, u)}}

\* The loop body of handle_challenge_response for the entry at position i, up to
\* its first await.
ProcessEntry(p, u, action, message, i, used) ==
    LET e == pending_challenges[i]
        rec == [op |-> "respond", action |-> action, user |-> u, message |-> message,
                pc |-> "deleted",
                challenger |-> e.challenger, used |-> used, cursor |-> i, game |-> 0]
    IN IF action = "accept"
       THEN IF ReservedOnAccept(e.challenger, e.challenged)
            THEN \* await interaction.message.edit(...), then del and return
                 /\ procs' = [procs EXCEPT ![p] = [rec EXCEPT !.pc = "conflict_edit"]]
                 /\ UNCHANGED duelVars
            ELSE \* the game is created, both players are reserved, cards are dealt
                 \E deck \in Decks :
                   LET g == games_created + 1
                       game == BlackjackGame(e.challenger, e.challenged, e.wager, deck)
                   IN /\ games_created < MaxGames
                      /\ games_created' = g
                      /\ active_games' = Put(Put(active_games, e.challenger, g), e.challenged, g)
                      /\ active_players' = active_players \cup {e.challenger, e.challenged}
                      /\ procs' = [procs EXCEPT ![p] = [rec EXCEPT !.pc = "sent_state",
                                                               !.cursor = i + 1,
                                                               !.game = g]]
                      /\ games' = Restrict(Put(games, g, deal_initial_cards(game)),
                                           LiveGames(active_games', procs'))
                      /\ UNCHANGED pending_challenges
       ELSE \* deny, withdraw: del, then await interaction.message.edit(...)
            /\ pending_challenges' = RemoveAt(pending_challenges, i)
            /\ procs' = [q \in ProcIds |-> IF q = p THEN rec ELSE Shift(procs[q], i)]
            /\ UNCHANGED <<games, games_created, active_games, active_players>>

\* a click on Accept, Deny or Withdraw of the given challenge message
Respond(p, u, action, message) ==
    /\ FreeSlot(p)
    /\ message \in ChallengeMessages(pending_challenges)
    /\ NextMatch(pending_challenges, 1, action, u) # 0
    /\ ProcessEntry(p, u, action, message, NextMatch(pending_challenges, 1, action, u),
                    Len(pending_challenges))
    /\ UNCHANGED <<ledgerVars, robVars, rouletteVars, lotteryVars>>

\* after send_game_state: del pending_challenges[challenger_id] (KeyError ends the
\* handler), then await interaction.message.delete()
RespondSent(p) ==
    /\ procs[p].op = "respond" /\ procs[p].pc = "sent_state"
    /\ IF HasPending(pending_challenges, procs[p].challenger)
       THEN LET j == IndexOf(pending_challenges, procs[p].challenger)
            IN /\ pending_challenges' = RemoveAt(pending_challenges, j)
               /\ procs' = [q \in ProcIds |->
                              IF q = p THEN [Shift(procs[p], j) EXCEPT !.pc = "deleted"]
                              ELSE Shift(procs[q], j)]
       ELSE /\ procs' = Finish(p)
            /\ UNCHANGED pending_challenges
    /\ games' = Restrict(games, LiveGames(active_games, procs'))
    /\ UNCHANGED <<ledgerVars, robVars, games_created, active_games, active_players, rouletteVars, lotteryVars>>

\* after the edit of the conflict branch: del (KeyError possible) and return
RespondConflict(p) ==
    /\ procs[p].op = "respond" /\ procs[p].pc = "conflict_edit"
    /\ IF HasPending(pending_challenges, procs[p].challenger)
       THEN LET j == IndexOf(pending_challenges, procs[p].challenger)
            IN /\ pending_challenges' = RemoveAt(pending_challenges, j)
               /\ procs' = [q \in ProcIds |-> IF q = p THEN Idle ELSE Shift(procs[q], j)]
       ELSE /\ procs' = Finish(p)
            /\ UNCHANGED pending_challenges
    /\ UNCHANGED <<ledgerVars, robVars, games, games_created, active_games, active_players,
                   rouletteVars, lotteryVars>>

\* The loop asks the dict iterator for the next entry after a del.  A dict whose
\* size differs from the size at the start of the loop raises RuntimeError.  With
\* the size restored by a concurrent insertion the iterator either raises
\* ("keys changed") or goes on, depending on the dict's layout: both are modelled.
RespondNext(p, goes_on) ==
    /\ procs[p].op = "respond" /\ procs[p].pc = "deleted"
    /\ LET r == procs[p]
           i == NextMatch(pending_challenges, r.cursor, r.action, r.user)
       IN IF Len(pending_challenges) # r.used \/ ~goes_on \/ i = 0
          THEN /\ procs' = Finish(p)
               /\ games' = Restrict(games, LiveGames(active_games, procs'))
               /\ UNCHANGED <<pending_challenges, games_created, active_games, active_players>>
          ELSE ProcessEntry(p, r.user, r.action, r.message, i, r.used)
    /\ UNCHANGED <<ledgerVars, robVars, rouletteVars, lotteryVars>>

\* Hit: game.hit draws a card, then send_game_state is awaited
Hit(p, u) ==
    /\ FreeSlot(p)
    /\ u \in DOMAIN active_games
    /\ LET g == active_games[u]
       IN /\ games[g].current_turn = u
          /\ ~games[g].game_ended
          /\ games[g].deck # <<>>
          /\ Capped(games[g].player1_id) /\ Capped(games[g].player2_id)
          /\ games' = [games EXCEPT ![g] = Draw(@, u)]
          /\ procs' = [procs EXCEPT ![p] = [op |-> "hit", pc |-> "sent_state",
                                            user |-> u, game |-> g]]
    /\ UNCHANGED <<ledgerVars, robVars, pending_challenges, games_created, active_games, active_players,
                   rouletteVars, lotteryVars>>

\* end_game up to its first await: the winner is determined
StartEnd(p, u, g) ==
    LET winner_id == determine_winner(games[g])
        loser_id == IF winner_id = games[g].player1_id THEN games[g].player2_id
                    ELSE games[g].player1_id
    IN [procs EXCEPT ![p] = [op |-> "end_game", user |-> u, game |-> g,
                             pc |-> IF winner_id = 0 THEN "draw1" ELSE "credit",
                             winner_id |-> winner_id, loser_id |-> loser_id,
                             score1 |-> games[g].scores[games[g].player1_id],
                             score2 |-> games[g].scores[games[g].player2_id],
                             paid_in |-> 0, paid_out |-> 0]]

\* after send_game_state: a bust ends the game
HitSent(p) ==
    /\ procs[p].op = "hit" /\ procs[p].pc = "sent_state"
    /\ procs' = IF is_bust(games[procs[p].game], procs[p].user)
                THEN StartEnd(p, procs[p].user, procs[p].game)
                ELSE Finish(p)
    /\ games' = Restrict(games, LiveGames(active_games, procs'))
    /\ UNCHANGED <<ledgerVars, robVars, pending_challenges, games_created, active_games, active_players,
                   rouletteVars, lotteryVars>>

\* Call by player1: the turn passes to player2
CallPass(u) ==
    /\ u \in DOMAIN active_games
    /\ LET g == active_games[u]
       IN /\ games[g].current_turn = u
          /\ games[g].current_turn = games[g].player1_id
          /\ games' = [games EXCEPT ![g].current_turn = games[g].player2_id]
    /\ UNCHANGED <<ledgerVars, robVars, pending_challenges, games_created, active_games, active_players,
                   rouletteVars, lotteryVars, procs>>

\* Call by player2: end_game
CallEnd(p, u) ==
    /\ FreeSlot(p)
    /\ u \in DOMAIN active_games
    /\ LET g == active_games[u]
       IN /\ games[g].current_turn = u
          /\ games[g].current_turn # games[g].player1_id
          /\ Capped(games[g].player1_id) /\ Capped(games[g].player2_id)
          /\ procs' = StartEnd(p, u, g)
    /\ UNCHANGED <<ledgerVars, robVars, duelVars, rouletteVars, lotteryVars>>

Gain(tbl, tbl2, user_id) ==
    IF HasAccount(tbl, user_id) /\ HasAccount(tbl2, user_id) THEN tbl2[user_id] - tbl[user_id] ELSE 0

\* await update_balance(winner_id, game.wager)
EndCredit(p) ==
    /\ procs[p].op = "end_game" /\ procs[p].pc = "credit"
    /\ DoUpdate(procs[p].winner_id, games[procs[p].game].wager)
    /\ procs' = [procs EXCEPT ![p].pc = "debit",
                              ![p].paid_in = Gain(users, users', procs[p].winner_id)]
    /\ UNCHANGED <<robVars, duelVars, rouletteVars, lotteryVars>>

\* await update_balance(loser_id, -game.wager); game.game_ended = True
EndDebit(p) ==
    /\ procs[p].op = "end_game" /\ procs[p].pc = "debit"
    /\ DoUpdate(procs[p].loser_id, -games[procs[p].game].wager)
    /\ procs' = [procs EXCEPT ![p].pc = "cleanup",
                              ![p].paid_out = -Gain(users, users', procs[p].loser_id)]
    /\ games' = [games EXCEPT ![procs[p].game].game_ended = TRUE]
    /\ UNCHANGED <<robVars, pending_challenges, games_created, active_games, active_players,
                   rouletteVars, lotteryVars>>

\* a draw: await update_balance(player1_id, 0)
EndDraw1(p) ==
    /\ procs[p].op = "end_game" /\ procs[p].pc = "draw1"
    /\ DoUpdate(games[procs[p].game].player1_id, 0)
    /\ procs' = [procs EXCEPT ![p].pc = "draw2",
                              ![p].paid_in = Gain(users, users', games[procs[p].game].player1_id)]
    /\ UNCHANGED <<robVars, duelVars, rouletteVars, lotteryVars>>

\* await update_balance(player2_id, 0); game.game_ended = True
EndDraw2(p) ==
    /\ procs[p].op = "end_game" /\ procs[p].pc = "draw2"
    /\ DoUpdate(games[procs[p].game].player2_id, 0)
    /\ procs' = [procs EXCEPT ![p].pc = "cleanup",
                              ![p].paid_out = -Gain(users, users', games[procs[p].game].player2_id)]
    /\ games' = [games EXCEPT ![procs[p].game].game_ended = TRUE]
    /\ UNCHANGED <<robVars, pending_challenges, games_created, active_games, active_players,
                   rouletteVars, lotteryVars>>

\* active_players.remove(player1_id); active_players.remove(player2_id);
\* del active_games[player1_id]; del active_games[player2_id]
\* A missing element raises KeyError and the statements after it are not run.
CleanupPlayers(ap, game) ==
    IF game.player1_id \notin ap THEN ap
    ELSE ap \ {game.player1_id, game.player2_id}

CleanupGames(ap, ag, game) ==
    IF game.player1_id \notin ap \/ game.player2_id \notin (ap \ {game.player1_id})
    THEN ag
    ELSE IF game.player1_id \notin DOMAIN ag THEN ag
    ELSE Drop(Drop(ag, game.player1_id), game.player2_id)

\* the final hands are sent, then the game state is cleaned up
EndCleanup(p) ==
    /\ procs[p].op = "end_game" /\ procs[p].pc = "cleanup"
    /\ active_players' = CleanupPlayers(active_players, games[procs[p].game])
    /\ active_games' = CleanupGames(active_players, active_games, games[procs[p].game])
    /\ procs' = Finish(p)
    /\ games' = Restrict(games, LiveGames(active_games', procs'))
    /\ UNCHANGED <<ledgerVars, robVars, pending_challenges, games_created, rouletteVars, lotteryVars>>

\* ------------------------------------------------------------- roulette.py
MaxTables == 1         \* no table is created after this many tables
\* the values random.randint(1000, 9999) is tried with
TableIds == {1001, 1002}
\* the pockets typed by players (37 is refused) and the results of the wheel
PocketChoices == {17, 36, 37}
SpinResults == {1, 17}
BetAmounts == {6000}

InSeq(s, x) == \E i \in DOMAIN s : s[i] = x

\* RouletteGame.__init__; winning_number 0 is None.  History: spins counts the
\* calls of spin() on the object, debits the players whose bet was debited and
\* twice those whose bet was debited again.
RouletteGame(table_id, initiator_id) ==
    [table_id |-> table_id, initiator_id |-> initiator_id,
     players |-> <<initiator_id>>, game_started |-> FALSE,
     player_choices |-> EmptyFn, player_bets |-> EmptyFn,
     winning_number |-> 0, spins |-> 0, debits |-> {}, twice |-> {}]

add_player(game, player_id) ==
    IF InSeq(game.players, player_id) \/ game.game_started THEN game
    ELSE [game EXCEPT !.players = Append(@, player_id)]

\* a start_game without the test of the number of players
start_game_alone(game, initiator_id) ==
    IF initiator_id # game.initiator_id \/ game.game_started
    THEN game
    ELSE [game EXCEPT !.game_started = TRUE]

start_game(game, initiator_id) ==
    IF initiator_id # game.initiator_id \/ Len(game.players) < 2 \/ game.game_started
    THEN game
    ELSE [game EXCEPT !.game_started = TRUE]

\* a set_player_choice without the test of the pocket's range
set_player_choice_any_pocket(game, player_id, pocket) ==
    IF ~game.game_started \/ ~InSeq(game.players, player_id)
    THEN game
    ELSE [game EXCEPT !.player_choices = Put(@, player_id, pocket)]

set_player_choice(game, player_id, pocket) ==
    IF ~game.game_started \/ ~InSeq(game.players, player_id) \/ pocket < 1 \/ pocket > 36
    THEN game
    ELSE [game EXCEPT !.player_choices = Put(@, player_id, pocket)]

\* set_player_bet returns True
BetAccepted(game, player_id) ==
    ~(~game.game_started \/ ~InSeq(game.players, player_id)
      \/ player_id \notin DOMAIN game.player_choices)

set_player_bet(game, player_id, amount) ==
    IF ~BetAccepted(game, player_id) THEN game
    ELSE [game EXCEPT !.player_bets = Put(@, player_id, amount)]

is_ready_to_spin(game) ==
    /\ game.game_started
    /\ Cardinality(DOMAIN game.player_choices) = Len(game.players)
    /\ Cardinality(DOMAIN game.player_bets) = Len(game.players)

\* spin: number is the value of random.randint(1, 36)
spin(game, number) == [game EXCEPT !.winning_number = number, !.spins = @ + 1]

\* get_winners: player_id -> bet * 35 for every choice equal to the winning number
get_winners(game) ==
    [pl \in {x \in DOMAIN game.player_choices :
                game.player_choices[x] = game.winning_number} |->
        game.player_bets[pl] * 35]

\* ------------------------------------------------------ roulette_manager.py
TableRef(r) == IF r.op = "bet" THEN r.game ELSE 0

\* the RouletteGame objects reachable from active_tables or from a handler
LiveTables(at, pr) == (Range(at) \cup {TableRef(pr[p]) : p \in ProcIds}) \ {0}

\* /roulette: the registry is checked, then the balance is read
CreateTableUpTo(p, u, max) ==
    /\ FreeSlot(p)
    /\ u \notin DOMAIN player_tables
    /\ tables_created + Cardinality({q \in ProcIds : procs[q].op = "create_table"}) < max
    /\ procs' = [procs EXCEPT ![p] = [op |-> "create_table", pc |-> "get_balance",
                                      user |-> u]]
    /\ UNCHANGED <<ledgerVars, robVars, duelVars, rouletteVars, lotteryVars>>

CreateTable(p, u) == CreateTableUpTo(p, u, MaxTables)

\* the table is created and registered; table_id is the random id
CreateTableSet(p, table_id) ==
    /\ procs[p].op = "create_table" /\ procs[p].pc = "get_balance"
    /\ procs' = Finish(p)
    /\ IF ~HasAccount(users, procs[p].user)
       THEN UNCHANGED rouletteVars
       ELSE LET t == tables_created + 1
            IN /\ tables_created' = t
               /\ active_tables' = Put(active_tables, table_id, t)
               /\ player_tables' = Put(player_tables, procs[p].user, table_id)
               /\ tables' = Restrict(Put(tables, t, RouletteGame(table_id, procs[p].user)),
                                     LiveTables(active_tables', procs'))
    /\ UNCHANGED <<ledgerVars, robVars, duelVars, lotteryVars>>

\* /join
JoinTable(p, u, table_id) ==
    /\ FreeSlot(p)
    /\ u \notin DOMAIN player_tables
    /\ procs' = [procs EXCEPT ![p] = [op |-> "join_table", pc |-> "get_balance",
                                      user |-> u, table_id |-> table_id]]
    /\ UNCHANGED <<ledgerVars, robVars, duelVars, rouletteVars, lotteryVars>>

JoinTableSet(p) ==
    /\ procs[p].op = "join_table" /\ procs[p].pc = "get_balance"
    /\ procs' = Finish(p)
    /\ LET u == procs[p].user
           table_id == procs[p].table_id
       IN IF ~HasAccount(users, u) \/ table_id \notin DOMAIN active_tables
          THEN UNCHANGED rouletteVars
          ELSE LET t == active_tables[table_id]
                   game == add_player(tables[t], u)
               IN /\ tables' = [tables EXCEPT ![t] = game]
                  /\ player_tables' = IF game # tables[t] THEN Put(player_tables, u, table_id)
                                      ELSE player_tables
                  /\ UNCHANGED <<active_tables, tables_created>>
    /\ UNCHANGED <<ledgerVars, robVars, duelVars, lotteryVars>>

\* /start: game.start_game runs before the first await
StartGame(u, table_id) ==
    /\ table_id \in DOMAIN active_tables
    /\ LET t == active_tables[table_id]
       IN /\ start_game(tables[t], u) # tables[t]
          /\ tables' = [tables EXCEPT ![t] = start_game(@, u)]
    /\ UNCHANGED <<ledgerVars, robVars, duelVars, active_tables, player_tables,
                   tables_created, lotteryVars, procs>>

\* the table on_message finds for a direct message of u, 0 if none
TableOf(u) ==
    IF u \in DOMAIN player_tables /\ player_tables[u] \in DOMAIN active_tables
    THEN active_tables[player_tables[u]] ELSE 0

\* on_message, pocket selection
Choice(u, pocket) ==
    /\ TableOf(u) # 0
    /\ LET t == TableOf(u)
       IN /\ tables[t].game_started
          /\ u \notin DOMAIN tables[t].player_choices
          /\ tables' = [tables EXCEPT ![t] = set_player_choice(@, u, pocket)]
    /\ UNCHANGED <<ledgerVars, robVars, duelVars, active_tables, player_tables,
                   tables_created, lotteryVars, procs>>

\* on_message, bet amount: up to await get_balance
Bet(p, u, bet_amount) ==
    /\ FreeSlot(p)
    /\ TableOf(u) # 0
    /\ LET t == TableOf(u)
       IN /\ tables[t].game_started
          /\ u \in DOMAIN tables[t].player_choices
          /\ u \notin DOMAIN tables[t].player_bets
          /\ procs' = [procs EXCEPT ![p] = [op |-> "bet", pc |-> "get_balance", user |-> u,
                                            game |-> t, bet_amount |-> bet_amount,
                                            winning_number |-> 0, winners |-> EmptyFn,
                                            index |-> 0, amount |-> 0,
                                            paid_out |-> 0, paid_in |-> 0]]
    /\ UNCHANGED <<ledgerVars, robVars, duelVars, rouletteVars, lotteryVars>>

\* an on_message that records the bet without comparing it with 0 and the balance
BetSet_unchecked(p) ==
    /\ procs[p].op = "bet" /\ procs[p].pc = "get_balance"
    /\ LET r == procs[p]
           game == set_player_bet(tables[r.game], r.user, r.bet_amount)
       IN IF ~BetAccepted(tables[r.game], r.user)
          THEN /\ procs' = Finish(p)
               /\ tables' = Restrict(tables, LiveTables(active_tables, procs'))
          ELSE /\ procs' = [procs EXCEPT ![p].pc = "sent_bet"]
               /\ tables' = [tables EXCEPT ![r.game] = game]
    /\ UNCHANGED <<ledgerVars, robVars, duelVars, active_tables, player_tables,
                   tables_created, lotteryVars>>

\* the balance is read and compared (None raises TypeError), the bet is recorded,
\* then the confirmation is sent
BetSet(p) ==
    /\ procs[p].op = "bet" /\ procs[p].pc = "get_balance"
    /\ LET r == procs[p]
           player_balance == get_balance(users, r.user)
           game == set_player_bet(tables[r.game], r.user, r.bet_amount)
       IN IF r.bet_amount <= 0 \/ player_balance = -1 \/ player_balance < r.bet_amount
             \/ ~BetAccepted(tables[r.game], r.user)
          THEN /\ procs' = Finish(p)
               /\ tables' = Restrict(tables, LiveTables(active_tables, procs'))
          ELSE /\ procs' = [procs EXCEPT ![p].pc = "sent_bet"]
               /\ tables' = [tables EXCEPT ![r.game] = game]
    /\ UNCHANGED <<ledgerVars, robVars, duelVars, active_tables, player_tables,
                   tables_created, lotteryVars>>

\* a handler that returns after the confirmation without testing the table
BetSent_returns(p, number) ==
    /\ procs[p].op = "bet" /\ procs[p].pc = "sent_bet"
    /\ number \in 1..36
    /\ procs' = Finish(p)
    /\ tables' = Restrict(tables, LiveTables(active_tables, procs'))
    /\ UNCHANGED <<ledgerVars, robVars, duelVars, active_tables, player_tables,
                   tables_created, lotteryVars>>

\* after the confirmation: is_ready_to_spin, then spin_and_resolve up to its first
\* await (the wheel is spun, the winners are computed, the first debit is issued)
BetSent(p, number) ==
    /\ procs[p].op = "bet" /\ procs[p].pc = "sent_bet"
    /\ LET r == procs[p]
           game == spin(tables[r.game], number)
       IN IF is_ready_to_spin(tables[r.game])
          THEN /\ tables' = [tables EXCEPT ![r.game] = game]
               /\ procs' = [procs EXCEPT ![p].pc = "debit",
                                         ![p].winning_number = number,
                                         ![p].winners = get_winners(game),
                                         ![p].index = 1,
                                         ![p].amount = game.player_bets[game.players[1]]]
          ELSE /\ procs' = Finish(p)
               /\ tables' = Restrict(tables, LiveTables(active_tables, procs'))
    /\ UNCHANGED <<ledgerVars, robVars, duelVars, active_tables, player_tables,
                   tables_created, lotteryVars>>

\* await update_balance(player_id, -game.player_bets[player_id])
SpinDebit(p) ==
    /\ procs[p].op = "bet" /\ procs[p].pc = "debit"
    /\ LET r == procs[p]
           player_id == tables[r.game].players[r.index]
       IN /\ DoUpdate(player_id, -r.amount)
          /\ procs' = [procs EXCEPT ![p].pc = IF player_id \in DOMAIN r.winners
                                              THEN "credit" ELSE "notify",
                                    ![p].paid_out = -Gain(users, users', player_id),
                                    ![p].paid_in = 0]
          /\ tables' = IF lastUpdate'.ok
                       THEN [tables EXCEPT ![r.game].debits = @ \cup {player_id},
                                           ![r.game].twice =
                                               @ \cup ({player_id} \cap tables[r.game].debits)]
                       ELSE tables
    /\ UNCHANGED <<robVars, duelVars, tables_created, active_tables, player_tables,
                   lotteryVars>>

\* await update_balance(player_id, winners[player_id])
SpinCredit(p) ==
    /\ procs[p].op = "bet" /\ procs[p].pc = "credit"
    /\ LET r == procs[p]
           player_id == tables[r.game].players[r.index]
       IN /\ DoUpdate(player_id, r.winners[player_id])
          /\ procs' = [procs EXCEPT ![p].pc = "notify",
                                    ![p].paid_in = Gain(users, users', player_id)]
    /\ UNCHANGED <<robVars, duelVars, rouletteVars, lotteryVars>>

\* a clean-up that releases the table's creator only
CleanupTables_initiator(pt, game) == Drop(pt, game.initiator_id)

\* "Clean up game state": the players' entries and the table's entry are deleted
CleanupTables(pt, game) == Restrict(pt, DOMAIN pt \ Range(game.players))

\* the result was sent to the player: the next player's debit, or the clean-up
SpinNotify(p) ==
    /\ procs[p].op = "bet" /\ procs[p].pc = "notify"
    /\ LET r == procs[p]
           game == tables[r.game]
       IN IF r.index < Len(game.players)
          THEN /\ procs' = [procs EXCEPT ![p].pc = "debit",
                                         ![p].index = r.index + 1,
                                         ![p].amount = game.player_bets[game.players[r.index + 1]]]
               /\ UNCHANGED rouletteVars
          ELSE /\ procs' = Finish(p)
               /\ player_tables' = CleanupTables(player_tables, game)
               /\ active_tables' = Drop(active_tables, game.table_id)
               /\ tables' = Restrict(tables, LiveTables(active_tables', procs'))
               /\ UNCHANGED tables_created
    /\ UNCHANGED <<ledgerVars, robVars, duelVars, lotteryVars>>

\* ------------------------------------------------------- lottery (database.py)
ENTRY_FEE == 200
POT_STEP == 200        \* total_pot = total_pot + 2
LotteryIds == {1}
LotteryEnd == 119      \* end_time of the round found in the database at start-up
LOTTERY_DURATION == 21600   \* timedelta(hours=6), in seconds

\* A row of lotteries; winner_id 0 is NULL.  resolved counts the
\* set_lottery_winner statements that updated the row, attempts those issued
\* for it, fees the entry fees debited for it, failed the passes of
\* check_lottery for it that raised (history).
LotteryRow(start_time, end_time) ==
    [start_time |-> start_time, end_time |-> end_time, total_pot |-> 0,
     winner_id |-> 0, is_active |-> TRUE, resolved |-> 0, attempts |-> 0,
     fees |-> 0, failed |-> 0]

\* get_active_lottery: WHERE is_active = TRUE ORDER BY start_time DESC LIMIT 1;
\* 0 for None
get_active_lottery(tbl) ==
    LET active == {l \in DOMAIN tbl : tbl[l].is_active}
    IN IF active = {} THEN 0
       ELSE CHOOSE l \in active : \A m \in active : tbl[m].start_time <= tbl[l].start_time

get_lottery_entries(entries, lottery_id) == {e[2] : e \in {x \in entries : x[1] = lottery_id}}

set_lottery_winner_unconditional(tbl, lottery_id, winner_id) ==
    IF lottery_id \in DOMAIN tbl
    THEN [tbl EXCEPT ![lottery_id].winner_id = winner_id,
                     ![lottery_id].is_active = FALSE,
                     ![lottery_id].resolved = @ + 1,
                     ![lottery_id].attempts = @ + 1]
    ELSE tbl

\* set_lottery_winner: UPDATE ... WHERE lottery_id = $1 AND is_active = TRUE
set_lottery_winner(tbl, lottery_id, winner_id) ==
    IF lottery_id \in DOMAIN tbl /\ tbl[lottery_id].is_active
    THEN [tbl EXCEPT ![lottery_id].winner_id = winner_id,
                     ![lottery_id].is_active = FALSE,
                     ![lottery_id].resolved = @ + 1,
                     ![lottery_id].attempts = @ + 1]
    ELSE IF lottery_id \in DOMAIN tbl
    THEN [tbl EXCEPT ![lottery_id].attempts = @ + 1]
    ELSE tbl

EntryAccepted_any_round(lottery_id, user_id) ==
    /\ lottery_id \in DOMAIN lotteries
    /\ HasAccount(users, user_id)
    /\ <<lottery_id, user_id>> \notin lottery_entries

EntryAccepted_duplicates(lottery_id, user_id) ==
    /\ lottery_id \in DOMAIN lotteries /\ lotteries[lottery_id].is_active
    /\ HasAccount(users, user_id)

\* add_lottery_entry returns True: the round is active, the account exists
\* (foreign key) and has no entry yet (UNIQUE)
EntryAccepted(lottery_id, user_id) ==
    /\ lottery_id \in DOMAIN lotteries /\ lotteries[lottery_id].is_active
    /\ HasAccount(users, user_id)
    /\ <<lottery_id, user_id>> \notin lottery_entries

\* ------------------------------------------------------- lottery_manager.py
\* /lotto by the administrator with a positive prize, up to await get_active_lottery()
StartLottery(p, u, prize) ==
    /\ FreeSlot(p)
    /\ u = ADMIN_USER_ID
    /\ prize > 0
    /\ procs' = [procs EXCEPT ![p] = [op |-> "start_lottery", pc |-> "get_active",
                                      prize |-> prize]]
    /\ UNCHANGED <<ledgerVars, robVars, duelVars, rouletteVars, lotteryVars>>

StartGetActive_creates(p) ==
    /\ procs[p].op = "start_lottery" /\ procs[p].pc = "get_active"
    /\ lotteries' = Put(lotteries, Cardinality(DOMAIN lotteries) + 1,
                        LotteryRow(now, now + LOTTERY_DURATION))
    /\ procs' = Finish(p)
    /\ UNCHANGED <<ledgerVars, robVars, duelVars, rouletteVars, lottery_entries>>

\* after await get_active_lottery(): with an active round the message is formatted
\* with active_lottery['prize_amount'] (KeyError); without one,
\* create_lottery(start_time, end_time, Decimal(str(prize))) is a call with three
\* arguments of a function that takes two (TypeError).  No row is inserted.
StartGetActive(p) ==
    /\ procs[p].op = "start_lottery" /\ procs[p].pc = "get_active"
    /\ procs' = Finish(p)
    /\ UNCHANGED <<ledgerVars, robVars, duelVars, rouletteVars, lotteryVars>>

\* the join button: the balance is read; without an account or with less than
\* ENTRY_FEE the handler sends its message and returns
JoinLottery(p, u, lottery_id) ==
    /\ FreeSlot(p)
    /\ LET balance == get_balance(users, u)
       IN procs' = [procs EXCEPT ![p] =
                       [op |-> "join_lottery",
                        pc |-> IF balance = -1 \/ balance < ENTRY_FEE
                               THEN "rejected" ELSE "add_entry",
                        user |-> u, lottery_id |-> lottery_id, balance |-> balance]]
    /\ UNCHANGED <<ledgerVars, robVars, duelVars, rouletteVars, lotteryVars>>

\* await interaction.response.send_message(...); return
JoinRejected(p) ==
    /\ procs[p].op = "join_lottery" /\ procs[p].pc = "rejected"
    /\ procs' = Finish(p)
    /\ UNCHANGED <<ledgerVars, robVars, duelVars, rouletteVars, lotteryVars>>

JoinAddEntry_pot_kept(p) ==
    /\ procs[p].op = "join_lottery" /\ procs[p].pc = "add_entry"
    /\ LET r == procs[p]
       IN IF EntryAccepted(r.lottery_id, r.user)
          THEN /\ lottery_entries' = lottery_entries \cup {<<r.lottery_id, r.user>>}
               /\ lotteries' = lotteries
               /\ procs' = [procs EXCEPT ![p].pc = "debit"]
          ELSE /\ procs' = Finish(p)
               /\ UNCHANGED lotteryVars
    /\ UNCHANGED <<ledgerVars, robVars, duelVars, rouletteVars>>

\* add_lottery_entry: one transaction
JoinAddEntry(p) ==
    /\ procs[p].op = "join_lottery" /\ procs[p].pc = "add_entry"
    /\ LET r == procs[p]
       IN IF EntryAccepted(r.lottery_id, r.user)
          THEN /\ lottery_entries' = lottery_entries \cup {<<r.lottery_id, r.user>>}
               /\ lotteries' = [lotteries EXCEPT ![r.lottery_id].total_pot = @ + POT_STEP]
               /\ procs' = [procs EXCEPT ![p].pc = "debit"]
          ELSE /\ procs' = Finish(p)
               /\ UNCHANGED lotteryVars
    /\ UNCHANGED <<ledgerVars, robVars, duelVars, rouletteVars>>

\* await update_balance(user_id, float(-ENTRY_FEE))
JoinDebit(p) ==
    /\ procs[p].op = "join_lottery" /\ procs[p].pc = "debit"
    /\ DoUpdate(procs[p].user, -ENTRY_FEE)
    /\ lotteries' = IF lastUpdate'.ok
                    THEN [lotteries EXCEPT ![procs[p].lottery_id].fees = @ + 1]
                    ELSE lotteries
    /\ procs' = Finish(p)
    /\ UNCHANGED <<robVars, duelVars, rouletteVars, lottery_entries>>

\* /lottoend: the active round is read
EndLottery(p, u) ==
    /\ FreeSlot(p)
    /\ u = ADMIN_USER_ID
    /\ get_active_lottery(lotteries) # 0
    /\ procs' = [procs EXCEPT ![p] = [op |-> "end_lottery", pc |-> "get_entries",
                                      lottery_id |-> get_active_lottery(lotteries),
                                      entries |-> {}, winner_id |-> 0]]
    /\ UNCHANGED <<ledgerVars, robVars, duelVars, rouletteVars, lotteryVars>>

\* the entries are read; winner_id = random.choice(entries), or None without entries
EndGetEntries(p, winner_id) ==
    /\ procs[p].op = "end_lottery" /\ procs[p].pc = "get_entries"
    /\ LET entries == get_lottery_entries(lottery_entries, procs[p].lottery_id)
       IN /\ IF entries = {} THEN winner_id = 0 ELSE winner_id \in entries
          /\ procs' = [procs EXCEPT ![p].pc = "set_winner", ![p].entries = entries,
                                    ![p].winner_id = winner_id]
    /\ UNCHANGED <<ledgerVars, robVars, duelVars, rouletteVars, lotteryVars>>

\* await set_lottery_winner(...); with a winner the next statement reads
\* active_lottery['prize_amount'], a key get_active_lottery does not return
\* (KeyError): update_balance is not reached.
EndSetWinner(p) ==
    /\ procs[p].op = "end_lottery" /\ procs[p].pc = "set_winner"
    /\ lotteries' = set_lottery_winner(lotteries, procs[p].lottery_id, procs[p].winner_id)
    /\ procs' = Finish(p)
    /\ UNCHANGED <<ledgerVars, robVars, duelVars, rouletteVars, lottery_entries>>

\* check_lottery, once a minute (tasks.loop runs one pass at a time): the active
\* round is read; a round that has not reached its end time is left alone
CheckLottery(p) ==
    /\ FreeSlot(p)
    /\ \A q \in ProcIds : procs[q].op # "check_lottery"
    /\ get_active_lottery(lotteries) # 0
    /\ ~(now < lotteries[get_active_lottery(lotteries)].end_time)
    /\ procs' = [procs EXCEPT ![p] = [op |-> "check_lottery", pc |-> "get_entries",
                                      lottery_id |-> get_active_lottery(lotteries),
                                      entries |-> {}, winner_id |-> 0]]
    /\ UNCHANGED <<ledgerVars, robVars, duelVars, rouletteVars, lotteryVars>>

\* the entries are read; without entries the pass returns
CheckGetEntries(p, winner_id) ==
    /\ procs[p].op = "check_lottery" /\ procs[p].pc = "get_entries"
    /\ LET entries == get_lottery_entries(lottery_entries, procs[p].lottery_id)
       IN IF entries = {}
          THEN /\ winner_id = 0
               /\ procs' = Finish(p)
          ELSE /\ winner_id \in entries
               /\ procs' = [procs EXCEPT ![p].pc = "set_winner", ![p].entries = entries,
                                         ![p].winner_id = winner_id]
    /\ UNCHANGED <<ledgerVars, robVars, duelVars, rouletteVars, lotteryVars>>

\* await set_lottery_winner(...); active_lottery['prize_amount'] raises KeyError,
\* which the pass logs
CheckSetWinner(p) ==
    /\ procs[p].op = "check_lottery" /\ procs[p].pc = "set_winner"
    /\ lotteries' = [set_lottery_winner(lotteries, procs[p].lottery_id, procs[p].winner_id)
                        EXCEPT ![procs[p].lottery_id].failed = @ + 1]
    /\ procs' = Finish(p)
    /\ UNCHANGED <<ledgerVars, robVars, duelVars, rouletteVars, lottery_entries>>

\* how often the store fails a pass of check_lottery for one round
MaxFailures == 2

\* the store call a pass of check_lottery awaits (get_lottery_entries,
\* set_lottery_winner) raises: the except clause of check_lottery logs the error
\* and the pass returns
CheckStoreFails(p) ==
    /\ procs[p].op = "check_lottery"
    /\ lotteries[procs[p].lottery_id].failed < MaxFailures
    /\ lotteries' = [lotteries EXCEPT ![procs[p].lottery_id].failed = @ + 1]
    /\ procs' = Finish(p)
    /\ UNCHANGED <<ledgerVars, robVars, duelVars, rouletteVars, lottery_entries>>


\* The state after start-up with the rows Balances in the users table and the
\* rows Rounds in the lotteries table of the database.
InitState(Balances, Rounds) ==
    /\ users = Balances
    /\ rob_cooldowns = EmptyFn
    /\ now = 0
    /\ pending_challenges = <<>>
    /\ games = EmptyFn
    /\ games_created = 0
    /\ active_games = EmptyFn
    /\ active_players = {}
    /\ tables = EmptyFn
    /\ tables_created = 0
    /\ active_tables = EmptyFn
    /\ player_tables = EmptyFn
    /\ lotteries = Rounds
    /\ lottery_entries = {}
    /\ procs = [p \in ProcIds |-> Idle]
    /\ lastUpdate = NoUpdate

\* the accounts in Accounts have been opened (/new) and hold the default balance
InitWith(Accounts, Rounds) == InitState([u \in Accounts |-> DEFAULT_BALANCE], Rounds)

Init == \E Accounts \in {Users, Users \ {NumUsers}} : InitWith(Accounts, EmptyFn)
InitAll == InitWith(Users, EmptyFn)
\* a round stored by an earlier run is active
InitLottery == InitWith(Users, [l \in LotteryIds |-> LotteryRow(0, LotteryEnd)])
\* the same round; earlier deposits have left the first account with JoinBalances[1]
\* and the last with less than ENTRY_FEE
JoinBalances == <<6100, 10000, 100>>
InitJoin == InitState(JoinBalances, [l \in LotteryIds |-> LotteryRow(0, LotteryEnd)])

NewAccountAction == \E u \in Users : NewAccount(u)
DepositAction == \E p \in ProcIds, u \in Users, to \in Users, a \in DepositAmounts : Deposit(p, u, to, a)
DepositGetReceiverAction == \E p \in ProcIds : DepositGetReceiver(p)
DepositDebitAction == \E p \in ProcIds : DepositDebit(p)
DepositCreditAction == \E p \in ProcIds : DepositCredit(p)
DeleteAccountAction == \E u \in Users, t \in Users : DeleteAccount(u, t)
GiveMoneyAction == \E p \in ProcIds, u \in Users, t \in Users, a \in GiveAmounts : GiveMoney(p, u, t, a)
GiveSetBalanceAction == \E p \in ProcIds : GiveSetBalance(p)
RobAction == \E p \in ProcIds, c \in RobPairs : Rob(p, c[1], c[2])
RobGetTargetAction == \E p \in ProcIds, success \in BOOLEAN : RobGetTarget(p, success)
RobTakeAction == \E p \in ProcIds : RobTake(p)
RobKeepAction == \E p \in ProcIds : RobKeep(p)
RobPenaltyAction == \E p \in ProcIds : RobPenalty(p)
TickAction == \E d \in TickSteps : Tick(d)

NextLedger ==
    \/ NewAccountAction \/ DeleteAccountAction
    \/ DepositAction \/ DepositGetReceiverAction \/ DepositDebitAction \/ DepositCreditAction
    \/ GiveMoneyAction \/ GiveSetBalanceAction

NextRob ==
    \/ RobAction \/ RobGetTargetAction \/ RobTakeAction \/ RobKeepAction \/ RobPenaltyAction
    \/ TickAction

SpecLedger == Init /\ [][NextLedger]_vars

\* /new and /dep only: accounts are opened and money is sent, nothing else
NextDeposit ==
    \/ NewAccountAction
    \/ DepositAction \/ DepositGetReceiverAction \/ DepositDebitAction
    \/ DepositCreditAction
SpecDeposit == Init /\ [][NextDeposit]_vars
SpecRob == Init /\ [][NextRob]_vars

ChallengeAction == \E p \in ProcIds, c \in ChallengePairs, w \in Wagers : Challenge(p, c[1], c[2], w)
ChallengeSetAction == \E p \in ProcIds : ChallengeSet(p)
RespondAction ==
    \E p \in ProcIds, u \in Users, a \in {"accept", "deny", "withdraw"}, m \in Users :
        m \in ClickableMessages(pending_challenges, a, u) /\ Respond(p, u, a, m)
\* any user presses any button of any pending challenge's message
AnyRespondAction ==
    \E p \in ProcIds, u \in Users, a \in {"accept", "deny", "withdraw"}, m \in Users : Respond(p, u, a, m)
RespondSentAction == \E p \in ProcIds : RespondSent(p)
RespondConflictAction == \E p \in ProcIds : RespondConflict(p)
RespondNextAction == \E p \in ProcIds, goes_on \in BOOLEAN : RespondNext(p, goes_on)
HitAction == \E p \in ProcIds, u \in Users : Hit(p, u)
HitSentAction == \E p \in ProcIds : HitSent(p)
CallPassAction == \E u \in Users : CallPass(u)
CallEndAction == \E p \in ProcIds, u \in Users : CallEnd(p, u)
EndCreditAction == \E p \in ProcIds : EndCredit(p)
EndDebitAction == \E p \in ProcIds : EndDebit(p)
EndDraw1Action == \E p \in ProcIds : EndDraw1(p)
EndDraw2Action == \E p \in ProcIds : EndDraw2(p)
EndCleanupAction == \E p \in ProcIds : EndCleanup(p)

NextDuel ==
    \/ ChallengeAction \/ ChallengeSetAction
    \/ RespondAction \/ RespondSentAction \/ RespondConflictAction \/ RespondNextAction
    \/ HitAction \/ HitSentAction \/ CallPassAction \/ CallEndAction
    \/ EndCreditAction \/ EndDebitAction \/ EndDraw1Action \/ EndDraw2Action
    \/ EndCleanupAction

SpecDuel == InitAll /\ [][NextDuel]_vars

CreateTableAction == \E p \in ProcIds, u \in Users : CreateTable(p, u)
CreateTableSetAction == \E p \in ProcIds, t \in TableIds : CreateTableSet(p, t)
JoinTableAction == \E p \in ProcIds, u \in Users, t \in TableIds : JoinTable(p, u, t)
JoinTableSetAction == \E p \in ProcIds : JoinTableSet(p)
StartGameAction == \E u \in Users, t \in TableIds : StartGame(u, t)
ChoiceAction == \E u \in Users, pocket \in PocketChoices : Choice(u, pocket)
BetAction == \E p \in ProcIds, u \in Users, a \in BetAmounts : Bet(p, u, a)
BetSetAction == \E p \in ProcIds : BetSet(p)
BetSentAction == \E p \in ProcIds, n \in SpinResults : BetSent(p, n)
SpinDebitAction == \E p \in ProcIds : SpinDebit(p)
SpinCreditAction == \E p \in ProcIds : SpinCredit(p)
SpinNotifyAction == \E p \in ProcIds : SpinNotify(p)

NextRoulette ==
    \/ CreateTableAction \/ CreateTableSetAction \/ JoinTableAction \/ JoinTableSetAction
    \/ StartGameAction \/ ChoiceAction \/ BetAction \/ BetSetAction \/ BetSentAction
    \/ SpinDebitAction \/ SpinCreditAction \/ SpinNotifyAction

SpecRoulette == InitAll /\ [][NextRoulette]_vars

\* roulette with bets that are refused: nothing, and more than any balance
WideBetAmounts == {0, 6000, 12000}
WideBetAction == \E p \in ProcIds, u \in Users, a \in WideBetAmounts : Bet(p, u, a)
NextBets ==
    \/ CreateTableAction \/ CreateTableSetAction \/ JoinTableAction \/ JoinTableSetAction
    \/ StartGameAction \/ ChoiceAction \/ WideBetAction \/ BetSetAction \/ BetSentAction
    \/ SpinDebitAction \/ SpinCreditAction \/ SpinNotifyAction
SpecBets == InitAll /\ [][NextBets]_vars

\* tables are created, joined and started; no bets
MaxOpenTables == 2     \* no table is created after this many tables
OpenTableAction == \E p \in ProcIds, u \in Users : CreateTableUpTo(p, u, MaxOpenTables)
NextTables ==
    \/ OpenTableAction \/ CreateTableSetAction \/ JoinTableAction \/ JoinTableSetAction
    \/ StartGameAction
SpecTables == InitAll /\ [][NextTables]_vars

StartLotteryAction ==
    \E p \in ProcIds, u \in Users, prize \in GiveAmounts : StartLottery(p, u, prize)
StartGetActiveAction == \E p \in ProcIds : StartGetActive(p)
JoinLotteryAction == \E p \in ProcIds, u \in Users, l \in LotteryIds : JoinLottery(p, u, l)
JoinAddEntryAction == \E p \in ProcIds : JoinAddEntry(p)
JoinDebitAction == \E p \in ProcIds : JoinDebit(p)
EndLotteryAction == \E p \in ProcIds, u \in Users : EndLottery(p, u)
EndGetEntriesAction == \E p \in ProcIds, w \in Users \cup {0} : EndGetEntries(p, w)
EndSetWinnerAction == \E p \in ProcIds : EndSetWinner(p)
CheckLotteryAction == \E p \in ProcIds : CheckLottery(p)
CheckGetEntriesAction == \E p \in ProcIds, w \in Users \cup {0} : CheckGetEntries(p, w)
CheckSetWinnerAction == \E p \in ProcIds : CheckSetWinner(p)

NextLottery ==
    \/ StartLotteryAction \/ StartGetActiveAction
    \/ JoinLotteryAction \/ JoinAddEntryAction \/ JoinDebitAction
    \/ EndLotteryAction \/ EndGetEntriesAction \/ EndSetWinnerAction
    \/ CheckLotteryAction \/ CheckGetEntriesAction \/ CheckSetWinnerAction
    \/ TickAction

SpecLottery == InitLottery /\ [][NextLottery]_vars

\* The sweep with a store that can fail it.  tasks.loop starts a pass every
\* minute whatever else is in flight, and every awaited call returns or raises.
CheckStoreFailsAction == \E p \in ProcIds : CheckStoreFails(p)
NextSweep ==
    \/ JoinLotteryAction \/ JoinAddEntryAction \/ JoinDebitAction
    \/ EndLotteryAction \/ EndGetEntriesAction \/ EndSetWinnerAction
    \/ CheckLotteryAction \/ CheckGetEntriesAction \/ CheckSetWinnerAction
    \/ CheckStoreFailsAction
    \/ TickAction
SweepFairness ==
    /\ SF_vars(CheckLotteryAction)
    /\ WF_vars(CheckGetEntriesAction) /\ WF_vars(CheckSetWinnerAction)
    /\ WF_vars(JoinAddEntryAction) /\ WF_vars(JoinDebitAction)
    /\ WF_vars(EndGetEntriesAction) /\ WF_vars(EndSetWinnerAction)
SpecSweep == InitLottery /\ [][NextSweep]_vars /\ SweepFairness

\* BlackjackGame on its own: a game is constructed over a shuffled deck, the
\* initial cards are dealt, and the players hit
MaxDeck == 6
ScoreRanks == {"A", "K", "Q", "9", "5"}
ScoreDecks == [1..MaxDeck -> ScoreRanks]
InitScore ==
    \E deck \in ScoreDecks :
        /\ rob_cooldowns = EmptyFn
        /\ now = 0
        /\ pending_challenges = <<>>
        /\ games = 1 :> BlackjackGame(1, 2, 10000, deck)
        /\ games_created = 1
        /\ active_games = EmptyFn
        /\ active_players = {}
        /\ users = [u \in Users |-> DEFAULT_BALANCE]
        /\ tables = EmptyFn /\ tables_created = 0
        /\ active_tables = EmptyFn /\ player_tables = EmptyFn
        /\ lotteries = EmptyFn /\ lottery_entries = {}
        /\ procs = [p \in ProcIds |-> Idle]
        /\ lastUpdate = NoUpdate

DealCards(g) ==
    /\ \A pl \in DOMAIN games[g].hands : games[g].hands[pl] = <<>>
    /\ games' = [games EXCEPT ![g] = deal_initial_cards(games[g])]
    /\ UNCHANGED <<ledgerVars, robVars, procs, pending_challenges, games_created,
                   active_games, active_players, rouletteVars, lotteryVars>>

\* BlackjackGame.hit
HitCard(g, player_id) ==
    /\ \A pl \in DOMAIN games[g].hands : games[g].hands[pl] # <<>>
    /\ ~games[g].game_ended
    /\ player_id \in {games[g].player1_id, games[g].player2_id}
    /\ games[g].deck # <<>>
    /\ games' = [games EXCEPT ![g] = Draw(games[g], player_id)]
    /\ UNCHANGED <<ledgerVars, robVars, procs, pending_challenges, games_created,
                   active_games, active_players, rouletteVars, lotteryVars>>

DealCardsAction == \E g \in DOMAIN games : DealCards(g)
HitCardAction == \E g \in DOMAIN games, player_id \in Users : HitCard(g, player_id)
NextScore == DealCardsAction \/ HitCardAction
SpecScore == InitScore /\ [][NextScore]_vars

\* the join button, /lottoend and /dep
JoinDepositPairs == {<<1, 2>>}
JoinDepositAction ==
    \E p \in ProcIds, pair \in JoinDepositPairs, amount \in DepositAmounts :
        Deposit(p, pair[1], pair[2], amount)
JoinRejectedAction == \E p \in ProcIds : JoinRejected(p)
NextJoin ==
    \/ JoinLotteryAction \/ JoinRejectedAction \/ JoinAddEntryAction \/ JoinDebitAction
    \/ EndLotteryAction \/ EndGetEntriesAction \/ EndSetWinnerAction
    \/ JoinDepositAction \/ DepositGetReceiverAction \/ DepositDebitAction
    \/ DepositCreditAction
SpecJoin == InitJoin /\ [][NextJoin]_vars

AcceptAction ==
    \E p \in ProcIds, u \in Users, m \in Users :
        m \in ClickableMessages(pending_challenges, "accept", u) /\ Respond(p, u, "accept", m)

\* the duel without Hit, Deny and Withdraw
NextAccept ==
    \/ ChallengeAction \/ ChallengeSetAction
    \/ AcceptAction \/ RespondSentAction \/ RespondConflictAction \/ RespondNextAction
    \/ CallPassAction \/ CallEndAction
    \/ EndCreditAction \/ EndDebitAction \/ EndDraw1Action \/ EndDraw2Action
    \/ EndCleanupAction

SpecAccept == InitAll /\ [][NextAccept]_vars

\* one pair of players: challenge, accept, hit and call
PlayPairs == {<<1, 3>>}
PlayChallengeAction ==
    \E p \in ProcIds, pair \in PlayPairs, wager \in Wagers :
        Challenge(p, pair[1], pair[2], wager)
NextPlay ==
    \/ PlayChallengeAction \/ ChallengeSetAction
    \/ AcceptAction \/ RespondSentAction \/ RespondConflictAction \/ RespondNextAction
    \/ HitAction \/ HitSentAction \/ CallPassAction \/ CallEndAction
    \/ EndCreditAction \/ EndDebitAction \/ EndDraw1Action \/ EndDraw2Action
    \/ EndCleanupAction
SpecPlay == InitAll /\ [][NextPlay]_vars

\* challenges and the responses to them, without play
NextRespond ==
    \/ ChallengeAction \/ ChallengeSetAction
    \/ AnyRespondAction \/ RespondSentAction \/ RespondConflictAction \/ RespondNextAction
SpecRespond == InitAll /\ [][NextRespond]_vars

\* the same with a challenge of oneself
SelfPairs == {<<1, 1>>, <<1, 3>>}
SelfChallengeAction ==
    \E p \in ProcIds, pair \in SelfPairs, wager \in Wagers :
        Challenge(p, pair[1], pair[2], wager)
NextSelf ==
    \/ SelfChallengeAction \/ ChallengeSetAction
    \/ AcceptAction \/ RespondSentAction \/ RespondConflictAction \/ RespondNextAction
    \/ HitAction \/ HitSentAction \/ CallPassAction \/ CallEndAction
    \/ EndCreditAction \/ EndDebitAction \/ EndDraw1Action \/ EndDraw2Action
    \/ EndCleanupAction
SpecSelf == InitAll /\ [][NextSelf]_vars

\* the commands that reserve players: /challenge and Accept, /roulette and /join
NextReserve ==
    \/ ChallengeAction \/ ChallengeSetAction
    \/ AcceptAction \/ RespondSentAction \/ RespondConflictAction \/ RespondNextAction
    \/ CreateTableAction \/ CreateTableSetAction \/ JoinTableAction \/ JoinTableSetAction

SpecReserve == InitAll /\ [][NextReserve]_vars

\* ------------------------------------------------------------------ claims
\* C1: in every reachable state every account's balance is >= 0.
BalanceNonNegative == \A u \in DOMAIN users : users[u] >= 0

\* a debit larger than the balance was asked for and the account is still there
\* with less than a deposit on it
RefusedDebitReached ==
    /\ lastUpdate.called /\ lastUpdate.found /\ lastUpdate.negative
    /\ \E u \in DOMAIN users : \A a \in DepositAmounts : users[u] < a

\* C2: on an existing account update_balance fails, and leaves the balance
\* unchanged, exactly when balance + delta < 0 at the instant of the update;
\* otherwise the delta is applied.
UpdateBalanceContract ==
    (lastUpdate.called /\ lastUpdate.found) =>
        /\ ~lastUpdate.ok <=> lastUpdate.negative
        /\ ~lastUpdate.ok => lastUpdate.unchanged
        /\ lastUpdate.ok => lastUpdate.applied

\* two deposits of one sender passed the balance check together; the debit of
\* one was applied and the debit of the other was refused
ConcurrentDebitsReached ==
    \E p \in ProcIds, q \in ProcIds :
        /\ procs[p].op = "deposit" /\ procs[q].op = "deposit"
        /\ procs[p].pc = "credit" /\ procs[q].pc = "credit"
        /\ procs[p].user = procs[q].user
        /\ procs[p].debited /\ ~procs[q].debited
        /\ lastUpdate.negative /\ ~lastUpdate.ok

\* the BlackjackGame objects registered for a player that have not ended
DuelSessions(u) ==
    {g \in Range(active_games) :
        ~games[g].game_ended /\ u \in {games[g].player1_id, games[g].player2_id}}

\* the registered RouletteGame objects a player sits at
RouletteSeats(u) == {t \in Range(active_tables) : InSeq(tables[t].players, u)}

\* C3: an account is a participant of at most one game that has not ended: never
\* two duel sessions, two roulette tables, or a duel session and a roulette table.
OneGamePerAccount ==
    \A u \in Users : Cardinality(DuelSessions(u)) + Cardinality(RouletteSeats(u)) <= 1

\* C4: no state is reachable in which the debit of a transfer has been applied
\* and its credit has not.
TransferAtomic ==
    \A p \in ProcIds :
        (procs[p].op = "deposit" /\ procs[p].pc = "credit") => ~procs[p].debited

\* the winner the rule names for two scores; 0 is a draw
RuleWinner(score1, score2, player1_id, player2_id) ==
    IF score1 = score2 THEN 0
    ELSE IF score1 > 21 THEN player2_id
    ELSE IF score2 > 21 THEN player1_id
    ELSE IF score1 > score2 THEN player1_id ELSE player2_id

\* C5: a resolved duel with differing scores has the higher score not above 21
\* (or the only player not bust) as its winner, the winner's balance is up by
\* exactly the wager and the loser's is down by exactly the wager; with equal
\* scores it is a draw and neither balance changes.
DuelSettlement ==
    \A p \in ProcIds :
        (procs[p].op = "end_game" /\ procs[p].pc = "cleanup") =>
            LET r == procs[p]
                game == games[r.game]
            IN /\ r.winner_id = RuleWinner(r.score1, r.score2, game.player1_id, game.player2_id)
               /\ r.paid_in = IF r.score1 = r.score2 THEN 0 ELSE game.wager
               /\ r.paid_out = IF r.score1 = r.score2 THEN 0 ELSE game.wager

\* C6: of the challenges that target a player and are accepted, at most one has
\* a session that has not ended: the player holds one reservation at most.
OneSessionPerAccepted ==
    \A u \in Users :
        Cardinality({g \in Range(active_games) :
                        ~games[g].game_ended /\ games[g].player2_id = u}) <= 1

\* C7: each roulette table is spun, and paid out, at most once.
TableSpunOnce == \A t \in DOMAIN tables : tables[t].spins <= 1

\* C8: in a resolution pass every player's bet is debited, a player whose choice
\* is the winning number is credited 35 times the bet and any other player
\* nothing; no bet is debited twice.
RoulettePayout ==
    /\ \A t \in DOMAIN tables : tables[t].twice = {}
    /\ \A p \in ProcIds :
          (procs[p].op = "bet" /\ procs[p].pc = "notify") =>
              LET r == procs[p]
                  game == tables[r.game]
                  player_id == game.players[r.index]
                  bet == game.player_bets[player_id]
              IN /\ r.paid_out = bet
                 /\ r.paid_in = IF game.player_choices[player_id] = r.winning_number
                                THEN 35 * bet ELSE 0

\* C9: a round on which /lottoend and the sweep both act is resolved exactly
\* once: one set_lottery_winner takes effect, the recorded winner never changes
\* afterwards, and no balance is credited more than once (none goes up).
LotteryResolvedOnce ==
    [][\A l \in DOMAIN lotteries :
          /\ lotteries'[l].attempts > 0 => lotteries'[l].resolved = 1
          /\ ~lotteries[l].is_active =>
                 /\ ~lotteries'[l].is_active
                 /\ lotteries'[l].winner_id = lotteries[l].winner_id
          /\ \A u \in DOMAIN users : users'[u] <= users[u]]_vars

\* /lottoend has recorded a winner and the sweep, which read the entries while
\* the round was active, is about to record another
ResolveRaceReached ==
    \E p \in ProcIds :
        /\ procs[p].op = "check_lottery" /\ procs[p].pc = "set_winner"
        /\ ~lotteries[procs[p].lottery_id].is_active
        /\ lotteries[procs[p].lottery_id].winner_id # 0
        /\ lotteries[procs[p].lottery_id].winner_id # procs[p].winner_id

\* C10: a sweep pass over an active round without entries whose end time has
\* passed leaves the round inactive, without a winner, and changes no balance.
SweepEndsEmptyRound ==
    [][\A p \in ProcIds :
          (/\ procs[p].op = "check_lottery" /\ procs'[p].op = "idle"
           /\ get_lottery_entries(lottery_entries, procs[p].lottery_id) = {})
          => /\ ~lotteries'[procs[p].lottery_id].is_active
             /\ lotteries'[procs[p].lottery_id].winner_id = 0
             /\ users' = users]_vars

\* C11: a handler that ends an active round holding entries records a winner
\* among the round's entries, leaves the round inactive, and does not return
\* before the prize is on the winner's balance: the step in which it returns
\* raises the winner's balance and changes no other balance.
LotteryPrizeCredited ==
    [][\A p \in ProcIds :
          (/\ procs[p].op \in {"end_lottery", "check_lottery"}
           /\ procs[p].pc = "set_winner" /\ procs'[p] = Idle
           /\ procs[p].winner_id # 0
           /\ lotteries[procs[p].lottery_id].is_active)
          => LET l == procs[p].lottery_id
                 w == procs[p].winner_id
             IN /\ lotteries'[l].winner_id = w
                /\ w \in get_lottery_entries(lottery_entries, l)
                /\ ~lotteries'[l].is_active
                /\ users'[w] > users[w]
                /\ \A u \in DOMAIN users \ {w} : users'[u] = users[u]]_vars

\* the join handler in slot p is about to take a step in which enter must fail:
\* the balance it read is below the fee (or there is no account), or it issues
\* add_lottery_entry for a round that is not active or that the account has
\* entered
JoinMustFail(p) ==
    /\ procs[p].op = "join_lottery"
    /\ \/ procs[p].balance < ENTRY_FEE
       \/ /\ procs[p].pc = "add_entry"
          /\ \/ ~lotteries[procs[p].lottery_id].is_active
             \/ <<procs[p].lottery_id, procs[p].user>> \in lottery_entries

RobAllowed(p) ==
    procs[p].op = "rob" /\ procs[p].pc \in {"take", "keep", "penalty"}

\* C13: two attempts of one account that were both allowed lie at least
\* ROB_COOLDOWN seconds apart: an attempt made less than 120 s after an allowed
\* one is rejected, also while the earlier one is still being carried out.
RobCooldownEnforced ==
    \A p, q \in ProcIds :
        (p # q /\ RobAllowed(p) /\ RobAllowed(q) /\ procs[p].user = procs[q].user
         /\ procs[p].current_time <= procs[q].current_time)
        => procs[q].current_time - procs[p].current_time >= ROB_COOLDOWN

\* the blackjack total of a hand: every card at its value with aces counted 1,
\* plus 10 for as many aces as fit under 22
CardValue(rank) ==
    IF rank \in {"J", "Q", "K"} THEN 10 ELSE IF rank = "A" THEN 1 ELSE NumberValue[rank]

RECURSIVE HardTotal(_)
HardTotal(hand) ==
    IF hand = <<>> THEN 0 ELSE CardValue(Head(hand)) + HardTotal(Tail(hand))

BlackjackTotal(hand) ==
    LET base == HardTotal(hand)
        aces == Cardinality({i \in DOMAIN hand : hand[i] = "A"})
        fits == {k \in 0..aces : base + 10 * k <= 21}
    IN IF fits = {} THEN base
       ELSE base + 10 * (CHOOSE k \in fits : \A j \in fits : j <= k)

\* C14: the stored score of every player of every game is the blackjack total of
\* the hand the player holds, and the totals of [A,A,9], [K,Q] and [A,K,5] are
\* 21, 20 and 16.
ScoreIsBlackjackTotal ==
    /\ \A g \in DOMAIN games : \A pl \in DOMAIN games[g].hands :
           games[g].scores[pl] = BlackjackTotal(games[g].hands[pl])
    /\ _calculate_score(<<"A", "A", "9">>) = 21
    /\ _calculate_score(<<"K", "Q">>) = 20
    /\ _calculate_score(<<"A", "K", "5">>) = 16

\* a player holds two aces and two tens: both aces count 1
TwoAcesReducedReached ==
    \E g \in DOMAIN games : \E pl \in DOMAIN games[g].hands :
        /\ Len(games[g].hands[pl]) = 4
        /\ Cardinality({i \in 1..4 : games[g].hands[pl][i] = "A"}) = 2
        /\ games[g].scores[pl] = 22

\* C15: of a registered session that has not ended, both participants are
\* reserved or neither is: no state shows exactly one of them in active_players.
ReservationAllOrNothing ==
    \A g \in Range(active_games) :
        ~games[g].game_ended =>
            (games[g].player1_id \in active_players
             <=> games[g].player2_id \in active_players)

\* C16: a deposit moves money and makes none: when /dep returns, the recipient
\* (still holding an account) has gained exactly what the sender was debited by
\* this deposit, the amount if the debit was applied and nothing if it was refused.
DepositConservesMoney ==
    [][\A p \in ProcIds :
          (/\ procs[p].op = "deposit" /\ procs[p].pc = "credit"
           /\ procs'[p] = Idle
           /\ HasAccount(users, procs[p].to))
          => /\ HasAccount(users', procs[p].to)
             /\ users'[procs[p].to] - users[procs[p].to]
                = IF procs[p].debited THEN procs[p].amount ELSE 0]_vars

\* C17: a session is resolved at most once: no two end_game passes over the
\* same session have both credited the wager to the winner.
SessionResolvedOnce ==
    \A p, q \in ProcIds :
        (/\ p # q
         /\ procs[p].op = "end_game" /\ procs[q].op = "end_game"
         /\ procs[p].game = procs[q].game)
        => ~(procs[p].paid_in > 0 /\ procs[q].paid_in > 0)

\* C18: a session is created on Accept only if both the challenger and the
\* challenged player hold at least the wager at that moment.
AcceptRevalidatesBalances ==
    [][games_created' # games_created
       => LET game == games'[games_created']
          IN /\ HasAccount(users, game.player1_id)
             /\ HasAccount(users, game.player2_id)
             /\ users[game.player1_id] >= game.wager
             /\ users[game.player2_id] >= game.wager]_vars

\* C19: for each round the number of recorded entries equals the number of
\* entry fees debited for it, whenever no join is between recording its entry
\* and debiting the fee.
EntriesMatchFees ==
    (\A p \in ProcIds : ~(procs[p].op = "join_lottery" /\ procs[p].pc = "debit"))
    => \A l \in DOMAIN lotteries :
           Cardinality(get_lottery_entries(lottery_entries, l)) = lotteries[l].fees

\* C20: /lotto by the administrator with a positive prize, finding no active
\* round, leaves exactly one active round, which starts now and ends
\* LOTTERY_DURATION later.
StartCreatesRound ==
    [][\A p \in ProcIds :
          (/\ procs[p].op = "start_lottery" /\ procs'[p] = Idle
           /\ procs[p].prize > 0
           /\ get_active_lottery(lotteries) = 0)
          => /\ Cardinality({l \in DOMAIN lotteries' : lotteries'[l].is_active}) = 1
             /\ lotteries'[get_active_lottery(lotteries')].start_time = now
             /\ lotteries'[get_active_lottery(lotteries')].end_time
                = now + LOTTERY_DURATION]_vars

ActiveRounds(tbl) == {l \in DOMAIN tbl : tbl[l].is_active}

\* C21: at most one round is active, and a /lotto handler that finds a round
\* active ends without creating a round or changing any row or entry, also with
\* two /lotto handlers in flight.
OneActiveRound ==
    [][/\ Cardinality(ActiveRounds(lotteries')) <= 1
       /\ \A p \in ProcIds :
             (/\ procs[p].op = "start_lottery" /\ procs'[p] # procs[p]
              /\ ActiveRounds(lotteries) # {})
             => /\ procs'[p] = Idle
                /\ lotteries' = lotteries
                /\ lottery_entries' = lottery_entries]_vars

\* two /lotto handlers are in flight while a round is active
ConcurrentStartsReached ==
    /\ \A p \in ProcIds : procs[p].op = "start_lottery"
    /\ ActiveRounds(lotteries) # {}
    /\ NumProcs >= 2

\* C22: a score above 21 ends the session on the spot, so no session ever has
\* both players' scores above 21.
NoDoubleBust ==
    \A g \in DOMAIN games :
        ~(/\ games[g].scores[games[g].player1_id] > 21
          /\ games[g].scores[games[g].player2_id] > 21)

\* C23: a card is drawn only for the player who holds the turn of a session
\* that has not ended; the turn of an ended session does not change; and a
\* Call on an ended session starts no resolution, hence changes no balance.
ActionsNeedTurnAndLiveSession ==
    [][\A g \in DOMAIN games \cap DOMAIN games' :
          /\ \A u \in {games[g].player1_id, games[g].player2_id} :
                (games'[g].hands[u] # games[g].hands[u] \/ games'[g].scores[u] # games[g].scores[u])
                => (games[g].current_turn = u /\ ~games[g].game_ended)
          /\ games'[g].current_turn # games[g].current_turn => ~games[g].game_ended
          /\ \A p \in ProcIds :
                (/\ procs[p] = Idle
                 /\ procs'[p].op = "end_game"
                 /\ procs'[p].game = g)
                => (procs'[p].user = games[g].current_turn /\ ~games[g].game_ended)]_vars

\* the test of handle_game_action that sends a Call to end_game
CallResolves(game) == game.current_turn # game.player1_id

\* C24: a new session gives the turn to player1; the turn changes only from
\* player1 to player2, in a step that starts no resolution and moves no money;
\* a Call by player2 holding the turn resolves the session, a Call starts a
\* resolution only when pressed by player2 holding the turn, and a resolution
\* that has settled the balances has marked the session ended.
TurnOrder ==
    [][/\ \A g \in DOMAIN games' \ DOMAIN games :
             games'[g].current_turn = games'[g].player1_id
       /\ \A u \in DOMAIN active_games' :
             LET game == games'[active_games'[u]]
             IN (u = game.player2_id /\ game.current_turn = u) => CallResolves(game)
       /\ \A g \in DOMAIN games \cap DOMAIN games' :
             /\ games'[g].current_turn # games[g].current_turn
                => /\ games[g].current_turn = games[g].player1_id
                   /\ games'[g].current_turn = games[g].player2_id
                   /\ games'[g].game_ended = games[g].game_ended
                   /\ procs' = procs
                   /\ users' = users
             /\ \A p \in ProcIds :
                   (/\ procs[p] = Idle
                    /\ procs'[p].op = "end_game"
                    /\ procs'[p].game = g)
                   => /\ procs'[p].user = games[g].player2_id
                      /\ games[g].current_turn = games[g].player2_id
       /\ \A p \in ProcIds :
             (procs'[p].op = "end_game" /\ procs'[p].pc = "cleanup")
             => games'[procs'[p].game].game_ended]_vars

\* C27: every duel session has two distinct participants.
DistinctParticipants ==
    \A g \in DOMAIN games : games[g].player1_id # games[g].player2_id

\* the account's reservation belongs to a session other than g
HeldByOther(ag, u, g) == u \in DOMAIN ag /\ ag[u] # g

\* C25: when a resolution completes, the session is marked ended, neither of
\* its players is reserved (unless by another session they have joined since)
\* and no active-game entry refers to the session.
ResolvedSessionReleased ==
    [][\A p \in ProcIds :
          (procs[p].op = "end_game" /\ procs[p].pc = "cleanup" /\ procs'[p] = Idle)
          => LET g == procs[p].game
             IN /\ games[g].game_ended
                /\ \A u \in {games[g].player1_id, games[g].player2_id} :
                      u \in active_players' => HeldByOther(active_games', u, g)
                /\ \A u \in DOMAIN active_games' : active_games'[u] # g]_vars

\* C26: the release at the end of a resolution changes nothing when the
\* session's players are already released, and it never removes the reservation
\* or the active-game entry a player holds for another session.
ReleaseIdempotent ==
    [][\A p \in ProcIds :
          (procs[p].op = "end_game" /\ procs[p].pc = "cleanup" /\ procs'[p] = Idle)
          => LET g == procs[p].game
                 players == {games[g].player1_id, games[g].player2_id}
             IN /\ (players \cap active_players = {})
                   => (active_players' = active_players /\ active_games' = active_games)
                /\ \A u \in players :
                      HeldByOther(active_games, u, g)
                      => /\ HeldByOther(active_games', u, g)
                         /\ active_games'[u] = active_games[u]
                         /\ (u \in active_players => u \in active_players')]_vars

\* C28: a response acts only on the challenge whose message was clicked: the
\* handler removes no other pending challenge and starts no session of another
\* challenger.
RespondsToItsChallenge ==
    [][\A p \in ProcIds :
          (/\ procs[p].op = "respond" \/ procs'[p].op = "respond"
           /\ procs'[p] # procs[p]
           /\ \A q \in ProcIds \ {p} : procs[q].op # "respond")
          => LET message == IF procs'[p].op = "respond" THEN procs'[p].message
                            ELSE procs[p].message
             IN /\ \A i \in DOMAIN pending_challenges :
                      pending_challenges[i].challenger # message
                      => \E j \in DOMAIN pending_challenges' :
                            pending_challenges'[j] = pending_challenges[i]
                /\ games_created' # games_created
                   => games'[games_created'].player1_id = message]_vars

\* every joined player has a choice and a bet recorded
AllRecorded(game) ==
    /\ game.game_started
    /\ \A i \in DOMAIN game.players :
          /\ game.players[i] \in DOMAIN game.player_choices
          /\ game.players[i] \in DOMAIN game.player_bets

\* C29: the wheel of a table is spun only when every joined player has a choice
\* and a bet recorded; a table whose last missing bet is recorded and that is
\* not spun yet has a handler about to test it, and that handler's next step
\* spins the wheel and starts the resolution.
SpunWhenAllRecorded ==
    [][/\ \A t \in DOMAIN tables \cap DOMAIN tables' :
             tables'[t].spins # tables[t].spins => AllRecorded(tables[t])
       /\ \A t \in DOMAIN tables' :
             (AllRecorded(tables'[t]) /\ tables'[t].spins = 0)
             => \E p \in ProcIds : /\ procs'[p].op = "bet"
                                   /\ procs'[p].pc = "sent_bet"
                                   /\ procs'[p].game = t
       /\ \A p \in ProcIds :
             (/\ procs[p].op = "bet" /\ procs[p].pc = "sent_bet"
              /\ procs'[p] # procs[p]
              /\ AllRecorded(tables[procs[p].game]))
             => /\ procs'[p].op = "bet" /\ procs'[p].pc = "debit"
                /\ tables'[procs[p].game].spins = tables[procs[p].game].spins + 1]_vars

\* the last bet of a table of two players was recorded and the wheel was spun
SpunAfterLastBet ==
    \E t \in DOMAIN tables :
        /\ Len(tables[t].players) = 2
        /\ AllRecorded(tables[t])
        /\ tables[t].spins = 1
        /\ \E p \in ProcIds : /\ procs[p].op = "bet" /\ procs[p].pc = "debit"
                              /\ procs[p].game = t

\* C30: when the resolution of a table completes, the table is not among the
\* active tables and none of its players is registered at a table.
ResolvedTableRemoved ==
    [][\A p \in ProcIds :
          (procs[p].op = "bet" /\ procs[p].pc = "notify" /\ procs'[p] = Idle)
          => LET game == tables[procs[p].game]
             IN /\ game.table_id \notin DOMAIN active_tables'
                /\ \A t \in Range(active_tables') : t # procs[p].game
                /\ \A i \in DOMAIN game.players :
                      game.players[i] \notin DOMAIN player_tables']_vars

\* a table was created and resolved with money moved, and is registered no more
TableResolvedAndGone ==
    /\ tables_created >= 1
    /\ DOMAIN active_tables = {}
    /\ DOMAIN player_tables = {}
    /\ DOMAIN tables = {}
    /\ \A p \in ProcIds : procs[p] = Idle
    /\ \E u \in DOMAIN users : users[u] # DEFAULT_BALANCE

\* C31: every player registered at a table id is a member of the table
\* stored under that id.
RegisteredAtOwnTable ==
    \A u \in DOMAIN player_tables :
        /\ player_tables[u] \in DOMAIN active_tables
        /\ InSeq(tables[active_tables[player_tables[u]]].players, u)

\* the entries of a list of pending challenges
Entries(pend) == {pend[i] : i \in DOMAIN pend}

\* C32: a challenge is stored as pending only when its wager is positive, both
\* sides hold at least the wager and neither side is reserved in a game.
ProposedOnlyWhenValid ==
    [][\A e \in Entries(pending_challenges') \ Entries(pending_challenges) :
          /\ e.wager > 0
          /\ get_balance(users, e.challenger) >= e.wager
          /\ get_balance(users, e.challenged) >= e.wager
          /\ e.challenger \notin active_players
          /\ e.challenged \notin active_players]_vars

\* the click is by the party the button is for, on a pending challenge that no
\* handler has accepted already
ValidResponse(u, action, message) ==
    /\ HasPending(pending_challenges, message)
    /\ Matches(pending_challenges[IndexOf(pending_challenges, message)], action, u)
    /\ \A q \in ProcIds :
          ~(/\ procs[q].op = "respond" /\ procs[q].action = "accept"
            /\ procs[q].pc = "sent_state" /\ procs[q].challenger = message)

\* C33: a click on Accept, Deny or Withdraw changes the pending challenges, the
\* reservations or the sessions only when it is a valid response to the
\* challenge of the clicked message.
ResponseOnlyByParty ==
    [][\A p \in ProcIds :
          (/\ procs[p] = Idle
           /\ procs'[p].op = "respond"
           /\ \/ pending_challenges' # pending_challenges
              \/ active_players' # active_players
              \/ games_created' # games_created)
          => ValidResponse(procs'[p].user, procs'[p].action, procs'[p].message)]_vars

\* the invocation of /da, /give, /lotto or /lottoend by u would be carried out
DeleteCarriedOut(u) == \E t \in Users : ENABLED DeleteAccount(u, t)
GiveCarriedOut(u) ==
    \E p \in ProcIds, t \in Users, a \in GiveAmounts : ENABLED GiveMoney(p, u, t, a)
StartCarriedOut(u) ==
    \E p \in ProcIds, prize \in GiveAmounts : ENABLED StartLottery(p, u, prize)
EndCarriedOut(u) == \E p \in ProcIds : ENABLED EndLottery(p, u)

\* C34: /da, /give, /lotto and /lottoend invoked by an account other than
\* ADMIN_USER_ID are declined: in no state would such an invocation take a step.
NonAdminDeclined ==
    \A u \in Users \ {ADMIN_USER_ID} :
        /\ ~DeleteCarriedOut(u)
        /\ ~GiveCarriedOut(u)
        /\ ~StartCarriedOut(u)
        /\ ~EndCarriedOut(u)

\* a round is active, other accounts exist and each of the four operations would
\* be carried out for ADMIN_USER_ID, while a /lottoend of ADMIN_USER_ID is running
AdminOpsOpenToAdminOnly ==
    /\ DeleteCarriedOut(ADMIN_USER_ID)
    /\ GiveCarriedOut(ADMIN_USER_ID)
    /\ StartCarriedOut(ADMIN_USER_ID)
    /\ EndCarriedOut(ADMIN_USER_ID)
    /\ \E u \in DOMAIN users : u # ADMIN_USER_ID
    /\ \E p \in ProcIds : procs[p].op = "end_lottery"

\* C35: a /start request changes a table only when it comes from the table's
\* initiator while the table has at least 2 players and is not started; the
\* table changes from not started to started in no other way, and a started
\* table stays started.
StartOnlyByInitiator ==
    /\ [](\A u \in Users, table_id \in TableIds :
             ENABLED StartGame(u, table_id)
             => LET game == tables[active_tables[table_id]]
                IN /\ u = game.initiator_id
                   /\ Len(game.players) >= 2
                   /\ ~game.game_started)
    /\ [][\A t \in DOMAIN tables \cap DOMAIN tables' :
             /\ tables[t].game_started => tables'[t].game_started
             /\ (~tables[t].game_started /\ tables'[t].game_started)
                => /\ Len(tables[t].players) >= 2
                   /\ tables'[t] = [tables[t] EXCEPT !.game_started = TRUE]
                   /\ procs' = procs]_vars

\* a table of two players was started by its initiator
TableStarted ==
    \E t \in DOMAIN tables :
        /\ tables[t].game_started
        /\ Len(tables[t].players) = 2
        /\ tables[t].players[1] = tables[t].initiator_id
        /\ DOMAIN tables[t].player_choices = {}

\* C36: every recorded choice is that of a member of a started table and lies
\* in 1..36, and a recorded choice stays as it is while the table exists.
ChoicesValidAndFixed ==
    /\ [](\A t \in DOMAIN tables : \A u \in DOMAIN tables[t].player_choices :
             /\ tables[t].game_started
             /\ InSeq(tables[t].players, u)
             /\ tables[t].player_choices[u] \in 1..36)
    /\ [][\A t \in DOMAIN tables \cap DOMAIN tables' :
             \A u \in DOMAIN tables[t].player_choices :
                /\ u \in DOMAIN tables'[t].player_choices
                /\ tables'[t].player_choices[u] = tables[t].player_choices[u]]_vars

\* two players have chosen different pockets and one of them has sent a
\* further message, which is taken as a bet
ChoiceKeptOnNextMessage ==
    \E t \in DOMAIN tables :
        /\ Cardinality(DOMAIN tables[t].player_choices) = 2
        /\ Cardinality(Range(tables[t].player_choices)) = 2
        /\ \E p \in ProcIds : /\ procs[p].op = "bet" /\ procs[p].game = t
                              /\ procs[p].user \in DOMAIN tables[t].player_choices

\* C37: a bet is recorded, or replaced, only for a player whose choice is
\* recorded, with an amount above 0 and not above the player's balance at that
\* moment, and the step changes nothing else of the table.
BetRecordedOnlyWhenValid ==
    [][\A t \in DOMAIN tables \cap DOMAIN tables' :
          \A u \in DOMAIN tables'[t].player_bets :
             (u \notin DOMAIN tables[t].player_bets
              \/ tables'[t].player_bets[u] # tables[t].player_bets[u])
             => /\ u \in DOMAIN tables[t].player_choices
                /\ tables'[t].player_bets[u] > 0
                /\ tables'[t].player_bets[u] <= get_balance(users, u)
                /\ tables'[t] = [tables[t] EXCEPT
                                   !.player_bets = Put(@, u, tables'[t].player_bets[u])]]_vars

\* one player's bet is recorded, and the handler of a bet of the other player
\* that is not above 0, or is above that player's balance, has read the balance
InvalidBetSubmitted ==
    \E t \in DOMAIN tables, p \in ProcIds :
        /\ procs[p].op = "bet" /\ procs[p].pc = "get_balance" /\ procs[p].game = t
        /\ \/ procs[p].bet_amount <= 0
           \/ procs[p].bet_amount > get_balance(users, procs[p].user)
        /\ procs[p].user \in DOMAIN tables[t].player_choices
        /\ procs[p].user \notin DOMAIN tables[t].player_bets
        /\ \E v \in DOMAIN tables[t].player_bets : v # procs[p].user

\* the join handlers whose add_lottery_entry call for the round and the account
\* has returned True and whose fee is still to be debited
Entered(lottery_id, user_id) ==
    {p \in ProcIds : /\ procs[p].op = "join_lottery" /\ procs[p].pc = "debit"
                     /\ procs[p].lottery_id = lottery_id /\ procs[p].user = user_id}

\* C38: an account appears at most once among the entries of a lottery round,
\* also when two enter calls of the account for the round run concurrently:
\* add_lottery_entry succeeds for a round and an account only when the account
\* has no entry in that round, the step adds exactly that one entry, and at
\* most one of the concurrent calls of an account for a round succeeds.
OneEntryPerAccount ==
    /\ [](\A l \in LotteryIds, u \in Users :
            /\ Cardinality(Entered(l, u)) <= 1
            /\ Entered(l, u) # {} => <<l, u>> \in lottery_entries)
    /\ [][\A p \in ProcIds :
            (procs[p].op = "join_lottery" /\ procs[p].pc = "add_entry" /\ procs'[p] # procs[p])
            => /\ procs'[p].op = "join_lottery" /\ procs'[p].pc = "debit"
                  => /\ <<procs[p].lottery_id, procs[p].user>> \notin lottery_entries
                     /\ lottery_entries' =
                            lottery_entries \cup {<<procs[p].lottery_id, procs[p].user>>}
               /\ <<procs[p].lottery_id, procs[p].user>> \in lottery_entries
                  => lottery_entries' = lottery_entries /\ lotteries' = lotteries]_vars

\* two enter calls of one account for one round are in flight: the first has
\* entered the account, the second is about to be refused
ConcurrentEntersReached ==
    \E l \in LotteryIds, u \in Users, p, q \in ProcIds :
        /\ p # q
        /\ procs[p].op = "join_lottery" /\ procs[p].pc = "debit"
        /\ procs[q].op = "join_lottery" /\ procs[q].pc = "add_entry"
        /\ procs[p].user = u /\ procs[q].user = u
        /\ procs[p].lottery_id = l /\ procs[q].lottery_id = l
        /\ <<l, u>> \in lottery_entries

\* C39: in every state the accumulated pot of a lottery round equals the
\* number of entries recorded for that round times the fixed entry fee.
PotIsEntriesTimesFee ==
    \A l \in DOMAIN lotteries :
        lotteries[l].total_pot =
            Cardinality(get_lottery_entries(lottery_entries, l)) * ENTRY_FEE

\* a round that two accounts have entered, while a third enter call is in flight
PotOfTwoEntries ==
    \E l \in DOMAIN lotteries :
        /\ Cardinality(get_lottery_entries(lottery_entries, l)) = 2
        /\ lotteries[l].total_pot = 2 * ENTRY_FEE
        /\ \E p \in ProcIds : procs[p].op = "join_lottery" /\ procs[p].pc = "add_entry"
                              /\ procs[p].lottery_id = l

\* a pass of check_lottery for the round has raised, and the round is still
\* active after its end time
FailedPassLeftExpired(l) ==
    /\ lotteries[l].failed > 0
    /\ lotteries[l].is_active
    /\ ~(now < lotteries[l].end_time)

\* C40: a failure raised inside one iteration of the periodic lottery check is
\* caught and does not stop the cycle: after a failing iteration a later
\* iteration still runs and still ends an expired active round.
SweepSurvivesFailure ==
    \A l \in LotteryIds : FailedPassLeftExpired(l) ~> ~lotteries[l].is_active

\* the same for a round that has an entry
SweepEndsEnteredRound ==
    \A l \in LotteryIds :
        (FailedPassLeftExpired(l) /\ get_lottery_entries(lottery_entries, l) # {})
            ~> ~lotteries[l].is_active
====
